---- MODULE Spec2Model ----
(***************************************************************************)
(* Water-use cleaning / derivation pipeline of the WaterUseQA scripts.      *)
(*                                                                         *)
(* Modelled from                                                           *)
(*   src/Create time-series plots/v2/Analyse Time Series - Single WAP V2.py *)
(* and, for the extraction statistics and the consent-aware plot data,    *)
(* from                                                                    *)
(*   src/CreateTimeSeriesPlots/                                            *)
(*       AnalyseTimeSeriesWithConsentConditionsWAPListDateV1.py            *)
(* (which repeats the other functions verbatim).                           *)
(*                                                                         *)
(* Spec is main of the first script with the export of the statistics,     *)
(* from the measurement list on.  SpecSeries is main of both scripts from  *)
(* the return of extract_water_use_data on, on series that span several    *)
(* months, with the plot data.  SpecList is process_measurement_list with  *)
(* the window of the second script and SpecSites the loop of its main over *)
(* a list of sites.  SpecQA is the loop of main of                         *)
(*   src/Create time-series plots/v2/                                      *)
(*       Quality Assessment - WAP List - Combined Series V1.py             *)
(* and SpecWeekly, SpecModes and SpecHourly are main of the scripts of     *)
(*   src/MissingDataTools/                                                 *)
(* (2.GenerateWeeklyMissingDataReport.py, CompileWAPReportingModes.py and  *)
(* add_missing_dates of 3a.CreateDailyandHourlyPlots-SingleWAPV2.py).      *)
(*                                                                         *)
(* A dataframe is a sequence of rows (records); a groupby result is a      *)
(* function from the group keys to the aggregated row.  A float that may   *)
(* be missing (pandas NaN) is a record [nan, v]; every comparison with NaN *)
(* is false, as in pandas.  Mean and standard deviation are kept exactly:  *)
(* the mean as the fraction num/den, the standard deviation as the square  *)
(* root of the fraction num/den (the sample variance).                     *)
(***************************************************************************)
EXTENDS Integers, Sequences, FiniteSets, TLC

\* main of the analysis scripts: its position, its local variables and the
\* calls it has made to ws.get_data
VARIABLES pc, mslist2, idx, from_d, wu_data, vol_data, neg_summary,
          vol_data2, mean, sd, vol_stats, daily_stats, monthly_stats,
          extraction_stats, monthly_stats2, plot_data, return_period,
          requests

\* the scripts that iterate a list of sites: the list, the position in it,
\* what was printed and what was written
VARIABLES site_list, wap, export_response, stdout, exported,
          master, meas_types, data_exists, neg_count,
          outfile, wap_modes, files,
          hourly_data1, hourly_data2

\* the state that belongs to the scripts that iterate a list of sites
Scripts == <<site_list, wap, export_response, stdout, exported,
             master, meas_types, data_exists, neg_count,
             outfile, wap_modes, files, hourly_data1, hourly_data2>>

vars == <<pc, mslist2, idx, from_d, wu_data, vol_data, neg_summary,
          vol_data2, mean, sd, vol_stats, daily_stats, monthly_stats,
          extraction_stats, monthly_stats2, plot_data, return_period,
          requests, Scripts>>

----------------------------------------------------------------------------
(* Bounds of the model                                                     *)

\* rows of the measurement list of the site
MaxRows == 2
\* freely chosen readings returned by one fetch
MaxLen == 1

\* a float column value: NaN, or the number v
NaN == [nan |-> TRUE, v |-> 0]
Num(x) == [nan |-> FALSE, v |-> x]
IsNum(f) == ~f.nan

\* a frame without rows and with a default row index
NoFrame == [keyed |-> FALSE, rows |-> <<>>]

\* an undefined mean or standard deviation
NaNStat == [nan |-> TRUE, num |-> 0, den |-> 1]

\* the calendar days the measurement lists cover, as day numbers (days
\* since 1970-01-01): 2021-01-31 and 2021-02-01
Days == 18658 .. 18659

----------------------------------------------------------------------------
(* Calendar: the .dt.year / .dt.month / .dt.day of a day number, dt.date   *)

\* proleptic Gregorian calendar, as datetime.date computes it
CivilFromDays(z) ==
    LET zz  == z + 719468
        era == zz \div 146097
        doe == zz - era * 146097
        yoe == (doe - doe \div 1460 + doe \div 36524 - doe \div 146096) \div 365
        doy == doe - (365 * yoe + yoe \div 4 - yoe \div 100)
        mp  == (5 * doy + 2) \div 153
        d   == doy - (153 * mp + 2) \div 5 + 1
        m   == IF mp < 10 THEN mp + 3 ELSE mp - 9
        y   == yoe + era * 400 + (IF m <= 2 THEN 1 ELSE 0)
    IN  [year |-> y, month |-> m, day |-> d]

DtYear(date) == CivilFromDays(date).year
DtMonth(date) == CivilFromDays(date).month
DtDay(date) == CivilFromDays(date).day

\* dt.date(y, m, d) as a day number
DaysFromCivil(y, m, d) ==
    LET yy  == IF m <= 2 THEN y - 1 ELSE y
        era == yy \div 400
        yoe == yy - era * 400
        mp  == IF m > 2 THEN m - 3 ELSE m + 9
        doy == (153 * mp + 2) \div 5 + d - 1
        doe == yoe * 365 + yoe \div 4 - yoe \div 100 + doy
    IN  era * 146097 + doe - 719468

----------------------------------------------------------------------------
(* Strings: str(int) and '{0:0>2}'.format(x), as sequences of characters   *)

DigitChar(n) ==
    CASE n = 0 -> "0" [] n = 1 -> "1" [] n = 2 -> "2" [] n = 3 -> "3"
      [] n = 4 -> "4" [] n = 5 -> "5" [] n = 6 -> "6" [] n = 7 -> "7"
      [] n = 8 -> "8" [] n = 9 -> "9"

RECURSIVE IntToStr(_)
IntToStr(n) ==
    IF n < 10 THEN <<DigitChar(n)>>
    ELSE IntToStr(n \div 10) \o <<DigitChar(n % 10)>>

\* variant: str(x), without padding
MonthVal2_Unpadded(x) == IntToStr(x)

\* '{0:0>2}'.format(x): right-align in a field of width 2, fill with '0'
MonthVal2(x) ==
    LET s == IntToStr(x)
    IN  IF Len(s) >= 2 THEN s ELSE <<"0">> \o s

\* Year.astype(str) + "-" + MonthVal2.astype(str)
MonthKey(date) == IntToStr(DtYear(date)) \o <<"-">> \o MonthVal2(DtMonth(date))

----------------------------------------------------------------------------
(* Inputs: the measurement list of the site and the data the service holds *)

\* get_measurement_list keeps only these measurement kinds
MeasurementKinds ==
    {"Compliance Volume", "Water Meter", "Volume", "Volume [Flow]",
     "Volume [Average Flow]"}

\* the kinds the bounded measurement lists are drawn from
ListKinds == {"Compliance Volume", "Water Meter"}

\* raw values a freely chosen reading may carry
Values == {0, 5}

Repeat(v, n) == [i \in 1 .. n |-> v]

\* Longer series the service may return for one fetch (raw values in time
\* order).  The two short ones are worked examples of the specification.
\* The long ones reach the length guard of detect_spikes:
\*   - 101 readings, 31 of them positive, one far above the others;
\*   - 150 positive readings with mean 10 and standard deviation 2 that
\*     hold a 31 and a 20 (the 5 sd threshold itself);
\*   - 441 positive readings, one of them more than 20 sd above the mean;
\*   - 101 positive readings with a standard deviation below 1, one of
\*     them more than 5 sd above the mean.
Samples ==
    { <<10, 15, 12, 20>>,
      <<-2, -2, 5, -1>>,
      Repeat(0, 70) \o Repeat(1, 30) \o <<50>>,
      <<31, 20>> \o Repeat(9, 43) \o Repeat(11, 12) \o Repeat(10, 93),
      Repeat(1, 440) \o <<50>>,
      Repeat(1, 100) \o <<2>> }

\* sequences over S of length 0 .. n
SeqUpTo(S, n) == UNION {[1 .. k -> S] : k \in 0 .. n}

IsSortedByFrom(list) ==
    \A i \in 1 .. Len(list) - 1 : list[i].FromDate <= list[i + 1].FromDate

\* process_measurement_list: rows ordered by start date, with FromDate and
\* ToDate the dates of From and To
MeasurementLists ==
    { l \in UNION {[1 .. k -> [Measurement : ListKinds, FromDate : Days,
                               ToDate : Days]] : k \in 1 .. MaxRows} :
        /\ IsSortedByFrom(l)
        /\ \A i \in 1 .. Len(l) : l[i].FromDate <= l[i].ToDate }

\* the rows ws.get_data can return for (measurement, from_date, to_date):
\* readings of that measurement, in time order, dated inside the range
Readings(measurement, dates, values) ==
    [i \in 1 .. Len(values) |->
        [Measurement |-> measurement,
         DateTime    |-> [date |-> dates[i], minute |-> i],
         Value       |-> values[i]]]

\* the longer series as readings of one measurement dated on one day
\* (a table, so that it is built once)
SampleReadings ==
    [m \in ListKinds, d \in Days |->
        {Readings(m, Repeat(d, Len(vs)), vs) : vs \in Samples}]

\* Freely chosen readings are one per day from lo on (the last day of the
\* range takes the rest); a longer series is dated on the last day.
FetchResults(measurement, lo, hi) ==
    { Readings(measurement,
               [i \in 1 .. Len(vs) |-> IF lo + i - 1 < hi THEN lo + i - 1
                                                           ELSE hi],
               vs) : vs \in SeqUpTo(Values, MaxLen) }
    \cup SampleReadings[measurement, hi]

----------------------------------------------------------------------------
(* main, lines 346-352: extraction                                         *)

\* the scripts that iterate a list of sites have not run
ScriptsIdle ==
    /\ site_list = <<>>
    /\ wap = 1
    /\ export_response = "s"
    /\ stdout = <<>>
    /\ exported = <<>>
    /\ master = <<>>
    /\ meas_types = 0
    /\ data_exists = ""
    /\ neg_count = 0
    /\ outfile = <<>>
    /\ wap_modes = <<>>
    /\ files = <<>>
    /\ hourly_data1 = <<>>
    /\ hourly_data2 = <<>>

Init ==
    /\ mslist2 \in MeasurementLists
    /\ pc = "extract"
    /\ idx = 1
    \* from_d = dataframe['FromDate'].iloc[0]
    /\ from_d = mslist2[1].FromDate
    /\ wu_data = <<>>
    /\ vol_data = <<>>
    /\ neg_summary = <<>>
    /\ vol_data2 = <<>>
    /\ mean = NaNStat
    /\ sd = NaNStat
    /\ vol_stats = <<>>
    /\ daily_stats = <<>>
    /\ monthly_stats = <<>>
    /\ extraction_stats = NoFrame
    /\ monthly_stats2 = NoFrame
    /\ plot_data = <<>>
    /\ return_period = 0
    /\ requests = <<>>
    /\ ScriptsIdle

\* the tables the plotting and extraction-statistics stages produce
Outputs == <<extraction_stats, monthly_stats2, plot_data, return_period>>

Derived == <<vol_data, neg_summary, vol_data2, mean, sd, vol_stats,
             daily_stats, monthly_stats, Outputs>>

\* variant: the cursor is set to the ToDate of the row that was fetched
FetchOk_CursorAtToDate ==
    /\ pc = "extract"
    /\ idx <= Len(mslist2)
    /\ LET row == mslist2[idx]
           to_d == row.ToDate
       IN  /\ from_d <= to_d
           /\ \E tsdata2 \in FetchResults(row.Measurement, from_d, to_d) :
                 wu_data' = wu_data \o tsdata2
           /\ from_d' = to_d
           /\ requests' = Append(requests, [Measurement |-> row.Measurement,
                                             from_date   |-> from_d,
                                             to_date     |-> to_d])
    /\ idx' = idx + 1
    /\ UNCHANGED <<Scripts, pc, mslist2, Derived>>

\* extract_water_use_data, one iteration whose fetch succeeds
FetchOk ==
    /\ pc = "extract"
    /\ idx <= Len(mslist2)
    /\ LET row == mslist2[idx]
           to_d == row.ToDate
       IN  /\ from_d <= to_d
           /\ \E tsdata2 \in FetchResults(row.Measurement, from_d, to_d) :
                 wu_data' = wu_data \o tsdata2
           /\ from_d' = to_d + 1
           /\ requests' = Append(requests, [Measurement |-> row.Measurement,
                                             from_date   |-> from_d,
                                             to_date     |-> to_d])
    /\ idx' = idx + 1
    /\ UNCHANGED <<Scripts, pc, mslist2, Derived>>

\* variant: the except branch leaves the date cursor where it is
FetchFail_KeepCursor ==
    /\ pc = "extract"
    /\ idx <= Len(mslist2)
    /\ from_d <= mslist2[idx].ToDate
    /\ requests' = Append(requests, [Measurement |-> mslist2[idx].Measurement,
                                      from_date   |-> from_d,
                                      to_date     |-> mslist2[idx].ToDate])
    /\ idx' = idx + 1
    /\ UNCHANGED <<Scripts, pc, mslist2, from_d, wu_data, Derived>>

\* extract_water_use_data, one iteration whose fetch raises
FetchFail ==
    /\ pc = "extract"
    /\ idx <= Len(mslist2)
    /\ LET to_d == mslist2[idx].ToDate
       IN  /\ from_d <= to_d
           /\ from_d' = to_d + 1
           /\ requests' = Append(requests,
                                 [Measurement |-> mslist2[idx].Measurement,
                                  from_date   |-> from_d,
                                  to_date     |-> to_d])
    /\ idx' = idx + 1
    /\ UNCHANGED <<Scripts, pc, mslist2, wu_data, Derived>>

\* extract_water_use_data, one iteration that skips the row
SkipRow ==
    /\ pc = "extract"
    /\ idx <= Len(mslist2)
    /\ ~(from_d <= mslist2[idx].ToDate)
    /\ idx' = idx + 1
    /\ UNCHANGED <<Scripts, pc, mslist2, from_d, requests, wu_data, Derived>>

----------------------------------------------------------------------------
(* Arithmetic helpers                                                      *)

RECURSIVE SumRange(_, _, _)
\* s[lo] + ... + s[hi], halving the range to keep the recursion shallow
SumRange(s, lo, hi) ==
    IF lo > hi THEN 0
    ELSE IF lo = hi THEN s[lo]
    ELSE LET mid == (lo + hi) \div 2
         IN  SumRange(s, lo, mid) + SumRange(s, mid + 1, hi)

\* Series.sum()
SumSeq(s) == SumRange(s, 1, Len(s))

\* Series.count(): the number of rows whose Vol is not missing
CountRows(df) == Cardinality({i \in 1 .. Len(df) : IsNum(df[i].Vol)})

RECURSIVE FracGT(_, _, _, _)
\* a/b > c/d for a, c >= 0 and b, d > 0, by continued-fraction expansion
\* (no product is formed, so no intermediate value overflows)
FracGT(a, b, c, d) ==
    LET qa == a \div b
        qc == c \div d
        ra == a % b
        rc == c % d
    IN  IF qa # qc THEN qa > qc
        ELSE IF ra = 0 THEN FALSE
        ELSE IF rc = 0 THEN TRUE
        ELSE FracGT(d, rc, b, ra)

----------------------------------------------------------------------------
(* convert_water_use_data                                                  *)

\* variant: the difference loses its sign
ValueDiff_Unsigned(df, i) ==
    IF i = 1 THEN NaN
    ELSE IF df[i].Value >= df[i - 1].Value
         THEN Num(df[i].Value - df[i - 1].Value)
         ELSE Num(df[i - 1].Value - df[i].Value)

\* Series.diff(): the difference with the previous row of the whole column
ValueDiff(df, i) ==
    IF i = 1 THEN NaN ELSE Num(df[i].Value - df[i - 1].Value)

\* variant: every measurement kind is differenced
convert_water_use_data_DiffAll(dataframe) ==
    [i \in 1 .. Len(dataframe) |->
        [Measurement |-> dataframe[i].Measurement,
         DateTime    |-> dataframe[i].DateTime,
         Value       |-> dataframe[i].Value,
         Date        |-> dataframe[i].DateTime.date,
         Vol         |-> ValueDiff(dataframe, i)]]

convert_water_use_data(dataframe) ==
    [i \in 1 .. Len(dataframe) |->
        [Measurement |-> dataframe[i].Measurement,
         DateTime    |-> dataframe[i].DateTime,
         Value       |-> dataframe[i].Value,
         Date        |-> dataframe[i].DateTime.date,
         Vol         |-> IF dataframe[i].Measurement = "Water Meter"
                         THEN ValueDiff(dataframe, i)
                         ELSE Num(dataframe[i].Value)]]

----------------------------------------------------------------------------
(* summarise_negative_values, remove_negative_values                       *)

IsNegative(row) == IsNum(row.Vol) /\ row.Vol.v < 0

RowMonth(row) == MonthKey(row.DateTime.date)

summarise_negative_values(dataframe) ==
    LET neg_data == SelectSeq(dataframe, IsNegative)
        months == {RowMonth(neg_data[i]) : i \in 1 .. Len(neg_data)}
    IN  [m \in months |->
            LET InMonth(row) == RowMonth(row) = m
                grp == SelectSeq(neg_data, InMonth)
            IN  [NegativeValueCount |-> Len(grp),
                 NegativeValueSum   |->
                     SumSeq([i \in 1 .. Len(grp) |-> grp[i].Vol.v])]]

IsNonNegative(row) == IsNum(row.Vol) /\ row.Vol.v >= 0

\* variant: zero volumes are removed too
remove_negative_values_DropZero(dataframe) ==
    LET IsAboveZero(row) == IsNum(row.Vol) /\ row.Vol.v > 0
    IN  SelectSeq(dataframe, IsAboveZero)

remove_negative_values(dataframe) == SelectSeq(dataframe, IsNonNegative)

----------------------------------------------------------------------------
(* calculate_spike_parameters, detect_spikes                               *)

IsPositive(row) == IsNum(row.Vol) /\ row.Vol.v > 0

\* Series.mean(): NaN for an empty series, else sum / n
SeriesMean(xs) ==
    IF Len(xs) = 0 THEN NaNStat
    ELSE [nan |-> FALSE, num |-> SumSeq(xs), den |-> Len(xs)]

\* Series.std(): the sample standard deviation (ddof = 1), NaN for fewer
\* than two values; kept as its square  num / den
SeriesStd(xs) ==
    LET n == Len(xs)
        sum == SumSeq(xs)
        sumsq == SumSeq([i \in 1 .. n |-> xs[i] * xs[i]])
    IN  IF n < 2 THEN NaNStat
        ELSE [nan |-> FALSE, num |-> n * sumsq - sum * sum,
              den |-> n * (n - 1)]

\* variant: zero volumes enter the estimate
calculate_spike_parameters_WithZeros(dataframe) ==
    LET some_vol == SelectSeq(dataframe, IsNonNegative)
        vols == [i \in 1 .. Len(some_vol) |-> some_vol[i].Vol.v]
    IN  [mean |-> SeriesMean(vols), sd |-> SeriesStd(vols)]

calculate_spike_parameters(dataframe) ==
    LET nonzero_vol == SelectSeq(dataframe, IsPositive)
        vols == [i \in 1 .. Len(nonzero_vol) |-> nonzero_vol[i].Vol.v]
    IN  [mean |-> SeriesMean(vols), sd |-> SeriesStd(vols)]

\* variant: any defined sd passes
SdAtLeastOne_Defined(s) == IsNum(s)

\* sd >= 1
SdAtLeastOne(s) == IsNum(s) /\ s.num >= s.den

\* variant: vol >= mean + sd * k
Exceeds_NotStrict(vol, m, s, k) ==
    /\ IsNum(vol) /\ IsNum(m) /\ IsNum(s)
    /\ LET x == vol.v * m.den - m.num
       IN  /\ x >= 0
           /\ ~FracGT(s.num, s.den, x * x, k * k * m.den * m.den)

\* vol > mean + sd * k   (k > 0)
Exceeds(vol, m, s, k) ==
    /\ IsNum(vol) /\ IsNum(m) /\ IsNum(s)
    /\ LET x == vol.v * m.den - m.num
       IN  /\ x > 0
           /\ FracGT(x * x, k * k * m.den * m.den, s.num, s.den)

\* the dataframe must hold more than this many rows for flags to be set
MinSeriesLength == 100

SpikeGuard(dataframe, s) == SdAtLeastOne(s) /\ Len(dataframe) > MinSeriesLength

Flag(b) == IF b THEN 1 ELSE 0

\* variant: an elif chain, only the highest threshold passed is flagged
detect_spikes_Exclusive(dataframe, m, s) ==
    LET guard == SpikeGuard(dataframe, s)
    IN  [i \in 1 .. Len(dataframe) |->
            LET over5  == guard /\ Exceeds(dataframe[i].Vol, m, s, 5)
                over10 == guard /\ Exceeds(dataframe[i].Vol, m, s, 10)
                over20 == guard /\ Exceeds(dataframe[i].Vol, m, s, 20)
            IN  [Measurement |-> dataframe[i].Measurement,
                 DateTime    |-> dataframe[i].DateTime,
                 Value       |-> dataframe[i].Value,
                 Date        |-> dataframe[i].Date,
                 Vol         |-> dataframe[i].Vol,
                 sd5  |-> Flag(over5 /\ ~over10),
                 sd10 |-> Flag(over10 /\ ~over20),
                 sd20 |-> Flag(over20)]]

detect_spikes(dataframe, m, s) ==
    LET guard == SpikeGuard(dataframe, s)
    IN  [i \in 1 .. Len(dataframe) |->
            [Measurement |-> dataframe[i].Measurement,
             DateTime    |-> dataframe[i].DateTime,
             Value       |-> dataframe[i].Value,
             Date        |-> dataframe[i].Date,
             Vol         |-> dataframe[i].Vol,
             sd5  |-> Flag(guard /\ Exceeds(dataframe[i].Vol, m, s, 5)),
             sd10 |-> Flag(guard /\ Exceeds(dataframe[i].Vol, m, s, 10)),
             sd20 |-> Flag(guard /\ Exceeds(dataframe[i].Vol, m, s, 20))]]

----------------------------------------------------------------------------
(* generate_daily_stats, generate_monthly_stats                            *)

\* Python's order of the measurement labels (str comparison)
LabelRank(label) ==
    CASE label = "Compliance Volume"     -> 1
      [] label = "Volume"                -> 2
      [] label = "Volume [Average Flow]" -> 3
      [] label = "Volume [Flow]"         -> 4
      [] label = "Water Meter"           -> 5

\* variant: the first label in str order is taken
MaxLabel_Min(labels) ==
    CHOOSE l \in labels : \A k \in labels : LabelRank(l) <= LabelRank(k)

\* agg 'max' over a non-empty set of labels
MaxLabel(labels) ==
    CHOOSE l \in labels : \A k \in labels : LabelRank(k) <= LabelRank(l)

RECURSIVE SortedSeq(_)
\* the elements of a finite set of integers in ascending order
SortedSeq(S) ==
    IF S = {} THEN <<>>
    ELSE LET lo == CHOOSE x \in S : \A y \in S : x <= y
         IN  <<lo>> \o SortedSeq(S \ {lo})

\* one row per Date of the dataframe, in ascending order of Date
generate_daily_stats(dataframe) ==
    LET dates == SortedSeq({dataframe[i].Date : i \in 1 .. Len(dataframe)})
    IN  [j \in 1 .. Len(dates) |->
            LET OnDate(row) == row.Date = dates[j]
                grp == SelectSeq(dataframe, OnDate)
            IN  [Date        |-> dates[j],
                 Measurement |->
                     MaxLabel({grp[i].Measurement : i \in 1 .. Len(grp)}),
                 Vol   |-> CountRows(grp),
                 sd5   |-> SumSeq([i \in 1 .. Len(grp) |-> grp[i].sd5]),
                 sd10  |-> SumSeq([i \in 1 .. Len(grp) |-> grp[i].sd10]),
                 sd20  |-> SumSeq([i \in 1 .. Len(grp) |-> grp[i].sd20]),
                 Month |-> MonthKey(dates[j])]]

\* variant: the daily rows are counted where their counts should be summed
generate_monthly_stats_CountReports(dataframe) ==
    LET months == {dataframe[i].Month : i \in 1 .. Len(dataframe)}
    IN  [m \in months |->
            LET InMonth(row) == row.Month = m
                grp == SelectSeq(dataframe, InMonth)
            IN  [MeasurementType |->
                     MaxLabel({grp[i].Measurement : i \in 1 .. Len(grp)}),
                 DaysWithData |-> Len(grp),
                 MeterReports |-> Len(grp),
                 Spikes5sd  |-> SumSeq([i \in 1 .. Len(grp) |-> grp[i].sd5]),
                 Spikes10sd |-> SumSeq([i \in 1 .. Len(grp) |-> grp[i].sd10]),
                 Spikes20sd |-> SumSeq([i \in 1 .. Len(grp) |-> grp[i].sd20])]]

\* one row per Month of the daily table
generate_monthly_stats(dataframe) ==
    LET months == {dataframe[i].Month : i \in 1 .. Len(dataframe)}
    IN  [m \in months |->
            LET InMonth(row) == row.Month = m
                grp == SelectSeq(dataframe, InMonth)
            IN  [MeasurementType |->
                     MaxLabel({grp[i].Measurement : i \in 1 .. Len(grp)}),
                 \* 'count' of the daily Vol column, itself a count and
                 \* never null: the number of daily rows
                 DaysWithData |-> Len(grp),
                 MeterReports |-> SumSeq([i \in 1 .. Len(grp) |-> grp[i].Vol]),
                 Spikes5sd  |-> SumSeq([i \in 1 .. Len(grp) |-> grp[i].sd5]),
                 Spikes10sd |-> SumSeq([i \in 1 .. Len(grp) |-> grp[i].sd10]),
                 Spikes20sd |-> SumSeq([i \in 1 .. Len(grp) |-> grp[i].sd20])]]

----------------------------------------------------------------------------
(* generate_extraction_stats, combine_monthly_stats                        *)
(* (AnalyseTimeSeriesWithConsentConditionsWAPListDateV1.py)                *)

\* round(x) of the fraction num / den >= 0, ties to the even integer
RoundHalfEven(num, den) ==
    LET q == num \div den
        r == num % den
    IN  IF 2 * r < den THEN q
        ELSE IF 2 * r > den THEN q + 1
        ELSE IF q % 2 = 0 THEN q ELSE q + 1

\* the least / greatest element of a non-empty set of integers
SetMin(S) == CHOOSE x \in S : \A y \in S : x <= y
SetMax(S) == CHOOSE x \in S : \A y \in S : y <= x

\* A frame whose index is Month is [keyed |-> TRUE, rows |-> function of
\* the month keys]; a frame with a default row index is [keyed |-> FALSE,
\* rows |-> sequence].  The volumes are whole numbers, so round(3) and
\* round(1) leave the minimum and maximum as they are; MeanExtraction is
\* the mean rounded to one decimal, kept in tenths.
generate_extraction_stats(dataframe) ==
    LET extraction_data == SelectSeq(dataframe, IsPositive)
        months == {RowMonth(extraction_data[i]) :
                      i \in 1 .. Len(extraction_data)}
    IN  IF Len(extraction_data) >= 1
        THEN [keyed |-> TRUE,
              rows  |-> [m \in months |->
                  LET InMonth(row) == RowMonth(row) = m
                      grp == SelectSeq(extraction_data, InMonth)
                      vols == [i \in 1 .. Len(grp) |-> grp[i].Vol.v]
                      V == {vols[i] : i \in 1 .. Len(vols)}
                  IN  [MinExtraction  |-> Num(SetMin(V)),
                       MeanExtraction |->
                           Num(RoundHalfEven(10 * SumSeq(vols), Len(vols))),
                       MaxExtraction  |-> Num(SetMax(V))]]]
        \* an empty frame with the column headings Month, MinExtraction,
        \* MeanExtraction, MaxExtraction: Month is a column here
        ELSE [keyed |-> FALSE, rows |-> <<>>]

\* the code point order of the characters a month key is made of
CharRank(c) ==
    CASE c = "-" -> 0 [] c = "0" -> 1 [] c = "1" -> 2 [] c = "2" -> 3
      [] c = "3" -> 4 [] c = "4" -> 5 [] c = "5" -> 6 [] c = "6" -> 7
      [] c = "7" -> 8 [] c = "8" -> 9 [] c = "9" -> 10

\* Python's str comparison a < b
StrLess(a, b) ==
    \/ \E k \in 1 .. Len(a) :
          /\ k <= Len(b)
          /\ \A j \in 1 .. k - 1 : a[j] = b[j]
          /\ CharRank(a[k]) < CharRank(b[k])
    \/ /\ Len(a) < Len(b)
       /\ \A j \in 1 .. Len(a) : a[j] = b[j]

RECURSIVE SortedKeys(_)
\* the keys of a groupby result in ascending (string) order
SortedKeys(S) ==
    IF S = {} THEN <<>>
    ELSE LET lo == CHOOSE x \in S : \A y \in S : x = y \/ StrLess(x, y)
         IN  <<lo>> \o SortedKeys(S \ {lo})

\* pd.merge(dataframe1, dataframe2, on='Month', how='left') and the choice
\* of the nine columns.  Month is the index of dataframe1.  When it is the
\* index of dataframe2 as well, the result keeps it as its index; when it
\* is a column of dataframe2, the result gets a default row index and
\* Month becomes a column, which the column choice leaves out.
combine_monthly_stats(dataframe1, dataframe2) ==
    LET Joined(m) ==
            [MeasType       |-> dataframe1[m].MeasurementType,
             DaysWithData   |-> dataframe1[m].DaysWithData,
             TotalReports   |-> dataframe1[m].MeterReports,
             MinExtraction  |-> IF m \in DOMAIN dataframe2.rows
                                THEN dataframe2.rows[m].MinExtraction ELSE NaN,
             MeanExtraction |-> IF m \in DOMAIN dataframe2.rows
                                THEN dataframe2.rows[m].MeanExtraction ELSE NaN,
             MaxExtraction  |-> IF m \in DOMAIN dataframe2.rows
                                THEN dataframe2.rows[m].MaxExtraction ELSE NaN,
             Spikes5sd      |-> dataframe1[m].Spikes5sd,
             Spikes10sd     |-> dataframe1[m].Spikes10sd,
             Spikes20sd     |-> dataframe1[m].Spikes20sd]
        keys == SortedKeys(DOMAIN dataframe1)
    IN  IF dataframe2.keyed
        THEN [keyed |-> TRUE, rows |-> [m \in DOMAIN dataframe1 |-> Joined(m)]]
        ELSE [keyed |-> FALSE,
              rows  |-> [i \in 1 .. Len(keys) |-> Joined(keys[i])]]

----------------------------------------------------------------------------
(* process_plot_data (Single WAP V2), process_plot_data1 and               *)
(* process_plot_data2 (consent conditions V1)                              *)

\* variant: June is taken for the second half of the year
WaterYearStart_JuneLate(from_date) ==
    LET from_year == DtYear(from_date)
        from_month == DtMonth(from_date)
    IN  IF from_month < 6 THEN DaysFromCivil(from_year - 1, 7, 1)
                          ELSE DaysFromCivil(from_year, 7, 1)

\* "Derive start date of the first water year"
WaterYearStart(from_date) ==
    LET from_year == DtYear(from_date)
        from_month == DtMonth(from_date)
    IN  IF from_month <= 6 THEN DaysFromCivil(from_year - 1, 7, 1)
                           ELSE DaysFromCivil(from_year, 7, 1)

\* Volume * (1000/86400), kept as the exact fraction
RateOf(volume) ==
    IF volume.nan THEN NaNStat
    ELSE [nan |-> FALSE, num |-> volume.v * 1000, den |-> 86400]

\* variant: the final fillna(0) is applied to every column
GapFilled_FillAll(dataframe) ==
    LET dates == {dataframe[i].Date : i \in 1 .. Len(dataframe)}
        from_date == SetMin(dates)
        to_date == SetMax(dates)
        start_date == WaterYearStart(from_date)
    IN  [k \in 1 .. to_date - start_date + 1 |->
            LET date == start_date + k - 1
                OnDate(row) == row.Date = date
                grp == SelectSeq(dataframe, OnDate)
                volume == IF date \in dates
                          THEN Num(SumSeq([i \in 1 .. Len(grp) |->
                                      IF IsNum(grp[i].Vol) THEN grp[i].Vol.v
                                                           ELSE 0]))
                          ELSE Num(0)
            IN  [Date     |-> date,
                 Readings |-> IF date \in dates THEN CountRows(grp) ELSE 0,
                 Volume   |-> volume,
                 Month    |-> MonthKey(date),
                 Day      |-> DtDay(date),
                 Rate     |-> RateOf(volume)]]

\* The daily counts reindexed onto pd.date_range(start_date, to_date) with
\* the date attributes and the rate; a date without group gets NaN in
\* every column, and the final fillna sets its Readings to 0.  The
\* dataframe is not empty.
GapFilled(dataframe) ==
    LET dates == {dataframe[i].Date : i \in 1 .. Len(dataframe)}
        from_date == SetMin(dates)
        to_date == SetMax(dates)
        start_date == WaterYearStart(from_date)
    IN  [k \in 1 .. to_date - start_date + 1 |->
            LET date == start_date + k - 1
                OnDate(row) == row.Date = date
                grp == SelectSeq(dataframe, OnDate)
                volume == IF date \in dates
                          THEN Num(SumSeq([i \in 1 .. Len(grp) |->
                                      IF IsNum(grp[i].Vol) THEN grp[i].Vol.v
                                                           ELSE 0]))
                          ELSE NaN
            IN  [Date     |-> date,
                 Readings |-> IF date \in dates THEN CountRows(grp) ELSE 0,
                 Volume   |-> volume,
                 Month    |-> MonthKey(date),
                 Day      |-> DtDay(date),
                 Rate     |-> RateOf(volume)]]

\* Volume.rolling(window, min_periods).mean() at row k: the mean of the
\* non-missing volumes among the last `window` rows, NaN when fewer than
\* min_periods of them are not missing
Rolling(rows, k, window, min_periods) ==
    LET lo == IF k - window + 1 < 1 THEN 1 ELSE k - window + 1
        obs == {j \in lo .. k : IsNum(rows[j].Volume)}
    IN  IF Cardinality(obs) >= min_periods
        THEN [nan |-> FALSE,
              num |-> SumSeq([j \in 1 .. k - lo + 1 |->
                         IF lo + j - 1 \in obs THEN rows[lo + j - 1].Volume.v
                                               ELSE 0]),
              den |-> Cardinality(obs)]
        ELSE NaNStat

\* rolling(window=30, min_periods=21)
Window30 == 30
MinPeriods21 == 21

process_plot_data(dataframe) ==
    \* (\o <<>> makes the table a plain sequence, built once)
    LET rows == GapFilled(dataframe) \o <<>>
    IN  [k \in 1 .. Len(rows) |->
            rows[k] @@ [MA30 |-> Rolling(rows, k, Window30, MinPeriods21)]]

process_plot_data1(dataframe) == GapFilled(dataframe)

\* rolling(window=int(return_period)): min_periods defaults to the window
\* (period stands for the argument return_period)
process_plot_data2(dataframe, period) ==
    \* (\o <<>> makes the table a plain sequence, built once)
    LET rows == GapFilled(dataframe) \o <<>>
    IN  [k \in 1 .. Len(rows) |->
            rows[k] @@
                [MA |-> Rolling(rows, k, period, period)]]

----------------------------------------------------------------------------
(* main, lines 352-372                                                     *)

\* variant: the negative values are summarised after the filter
Process_SummariseFiltered ==
    /\ pc = "extract"
    /\ idx > Len(mslist2)
    /\ wu_data # <<>>
    /\ vol_data' = convert_water_use_data(wu_data)
    /\ vol_data2' = remove_negative_values(vol_data')
    /\ neg_summary' = summarise_negative_values(vol_data2')
    /\ pc' = "statistics"
    /\ UNCHANGED <<Scripts, mslist2, idx, from_d, requests, wu_data, mean, sd, vol_stats,
                   daily_stats, monthly_stats, Outputs>>

\* variant: convert_water_use_data adds its columns to the frame passed in
Process_ConvertInPlace ==
    /\ pc = "extract"
    /\ idx > Len(mslist2)
    /\ wu_data # <<>>
    /\ wu_data' = convert_water_use_data(wu_data)
    /\ vol_data' = wu_data'
    /\ neg_summary' = summarise_negative_values(vol_data')
    /\ vol_data2' = remove_negative_values(vol_data')
    /\ pc' = "statistics"
    /\ UNCHANGED <<Scripts, mslist2, idx, from_d, requests, mean, sd, vol_stats,
                   daily_stats, monthly_stats, Outputs>>

\* "Initial extraction and processing": extract_water_use_data returns,
\* then convert_water_use_data, summarise_negative_values and
\* remove_negative_values run on its result
Process ==
    /\ pc = "extract"
    /\ idx > Len(mslist2)
    /\ wu_data # <<>>
    /\ vol_data' = convert_water_use_data(wu_data)
    /\ neg_summary' = summarise_negative_values(vol_data')
    /\ vol_data2' = remove_negative_values(vol_data')
    /\ pc' = "statistics"
    /\ UNCHANGED <<Scripts, mslist2, idx, from_d, requests, wu_data, mean, sd, vol_stats,
                   daily_stats, monthly_stats, Outputs>>

\* nothing was extracted: the DateTime column of the empty frame holds
\* objects, and its .dt accessor raises in convert_water_use_data
ProcessRaises ==
    /\ pc = "extract"
    /\ idx > Len(mslist2)
    /\ wu_data = <<>>
    /\ pc' = "raised"
    /\ UNCHANGED <<Scripts, mslist2, idx, from_d, requests, wu_data, Derived>>

\* "Create monthly summary stats": calculate_spike_parameters,
\* detect_spikes, generate_daily_stats and generate_monthly_stats
Statistics ==
    /\ pc = "statistics"
    /\ LET p == calculate_spike_parameters(vol_data2)
       IN  /\ mean' = p.mean
           /\ sd' = p.sd
    /\ vol_stats' = detect_spikes(vol_data2, mean', sd') \o <<>>
    /\ daily_stats' = generate_daily_stats(vol_stats')
    /\ monthly_stats' = generate_monthly_stats(daily_stats')
    /\ pc' = "done"
    /\ UNCHANGED <<Scripts, mslist2, idx, from_d, requests, wu_data, vol_data, neg_summary,
                   vol_data2, Outputs>>

Next ==
    \/ FetchOk
    \/ FetchFail
    \/ SkipRow
    \/ Process
    \/ ProcessRaises
    \/ Statistics

Spec == Init /\ [][Next]_vars

----------------------------------------------------------------------------
(* The stages after the extraction, on series that span several months:    *)
(* main of both scripts from the return of extract_water_use_data on       *)

\* the dates a series may begin at
FirstDates ==
    { DaysFromCivil(2020, 3, 15), DaysFromCivil(2020, 9, 1),
      DaysFromCivil(2020, 6, 30), DaysFromCivil(2020, 7, 1),
      DaysFromCivil(2020, 12, 15) }

\* one reading on each of n consecutive days
DailyRun(n) == [i \in 1 .. n |-> <<i - 1, 1 + (i % 3)>>]

\* a series as <<day offset from its first date, raw value>> pairs in time
\* order: a single reading; days with two readings, a day without
\* reading and a day with a zero reading; daily readings for 20, 21 and 32
\* days (the last followed by a late reading); zero readings only; a month
\* of zero readings before a month with positive ones
Patterns ==
    { << <<0, 5>> >>,
      << <<0, 5>>, <<0, 0>>, <<1, 7>>, <<1, 3>>, <<3, 0>> >>,
      DailyRun(20),
      DailyRun(21),
      DailyRun(32) \o << <<50, 4>> >>,
      << <<0, 0>>, <<1, 0>>, <<35, 0>> >>,
      << <<0, 0>>, <<40, 6>>, <<41, 2>> >> }

\* what one fetch of `measurement` from `first` on returned
SeriesReadings(measurement, first, pattern) ==
    Readings(measurement,
             [i \in 1 .. Len(pattern) |-> first + pattern[i][1]],
             [i \in 1 .. Len(pattern) |-> pattern[i][2]])

\* ConsentedMultiDayPeriod of the consents of a site, in days
ReturnPeriods == {7, 30}

\* extract_water_use_data has returned the readings of a measurement list
\* of one row
InitSeries ==
    /\ \E measurement \in ListKinds, first \in FirstDates, p \in Patterns :
          /\ wu_data = SeriesReadings(measurement, first, p)
          /\ mslist2 = << [Measurement |-> measurement,
                           FromDate    |-> first,
                           ToDate      |-> first + p[Len(p)][1]] >>
    /\ pc = "extract"
    /\ idx = 2
    /\ from_d = mslist2[1].ToDate + 1
    /\ vol_data = <<>>
    /\ neg_summary = <<>>
    /\ vol_data2 = <<>>
    /\ mean = NaNStat
    /\ sd = NaNStat
    /\ vol_stats = <<>>
    /\ daily_stats = <<>>
    /\ monthly_stats = <<>>
    /\ extraction_stats = NoFrame
    /\ monthly_stats2 = NoFrame
    /\ plot_data = <<>>
    /\ return_period = 0
    /\ requests = << [Measurement |-> mslist2[1].Measurement,
                      from_date   |-> mslist2[1].FromDate,
                      to_date     |-> mslist2[1].ToDate] >>
    /\ ScriptsIdle

Pipeline == <<mslist2, idx, from_d, requests, wu_data, vol_data, neg_summary, vol_data2,
              mean, sd, vol_stats, daily_stats, monthly_stats>>

\* consent conditions V1, main: generate_extraction_stats and
\* combine_monthly_stats follow generate_monthly_stats
CombineStatistics ==
    /\ pc = "done"
    /\ extraction_stats' = generate_extraction_stats(vol_data2)
    /\ monthly_stats2' = combine_monthly_stats(monthly_stats, extraction_stats')
    /\ pc' = "combined"
    /\ UNCHANGED <<Scripts, Pipeline, plot_data, return_period>>

\* Single WAP V2, main: "Generate time series plots"
PlotData ==
    /\ pc = "done"
    /\ vol_data2 # <<>>
    /\ plot_data' = process_plot_data(vol_data2)
    /\ pc' = "plotted"
    /\ UNCHANGED <<Scripts, Pipeline, extraction_stats, monthly_stats2, return_period>>

\* consent conditions V1, main: scenario 1, the site has no consents
PlotData1 ==
    /\ pc = "combined"
    /\ vol_data2 # <<>>
    /\ plot_data' = process_plot_data1(vol_data2)
    /\ pc' = "plotted1"
    /\ UNCHANGED <<Scripts, Pipeline, extraction_stats, monthly_stats2, return_period>>

\* consent conditions V1, main: scenario 2, the site has consents
PlotData2 ==
    /\ pc = "combined"
    /\ vol_data2 # <<>>
    \* summarise_consent_conditions: the greatest multi-day period
    /\ return_period' \in ReturnPeriods
    /\ plot_data' = process_plot_data2(vol_data2, return_period')
    /\ pc' = "plotted2"
    /\ UNCHANGED <<Scripts, Pipeline, extraction_stats, monthly_stats2>>

\* the filtered series is empty: dataframe['Date'].min() is NaN, and
\* from_date.year raises
PlotRaises ==
    /\ pc \in {"done", "combined"}
    /\ vol_data2 = <<>>
    /\ pc' = "raised"
    /\ UNCHANGED <<Scripts, Pipeline, Outputs>>

NextSeries ==
    \/ Process
    \/ Statistics
    \/ CombineStatistics
    \/ PlotData
    \/ PlotData1
    \/ PlotData2
    \/ PlotRaises

SpecSeries == InitSeries /\ [][NextSeries]_vars

----------------------------------------------------------------------------
(* process_measurement_list(dataframe, from_date, to_date)                 *)
(* (AnalyseTimeSeriesWithConsentConditionsWAPListDateV1.py)                *)

\* a pd.Timestamp: a day number and the minute of the day; NaT is the null
NaT == [nat |-> TRUE, date |-> 0, minute |-> 0]
Timestamp(d, m) == [nat |-> FALSE, date |-> d, minute |-> m]

\* a < b on timestamps; every comparison with NaT is false
TsLess(a, b) ==
    /\ ~a.nat /\ ~b.nat
    /\ \/ a.date < b.date
       \/ a.date = b.date /\ a.minute < b.minute

\* pd.Timestamp('2000-01-01 00:00:00'), the default start date
DefaultFrom == Timestamp(DaysFromCivil(2000, 1, 1), 0)

\* From.fillna(pd.Timestamp('2000-01-01 00:00:00'))
FillFrom(dataframe) ==
    [i \in 1 .. Len(dataframe) |->
        IF dataframe[i].From.nat
        THEN [dataframe[i] EXCEPT !.From = DefaultFrom]
        ELSE dataframe[i]]

RECURSIVE InsertByFrom(_, _)
\* row put into a list ordered by From, after the rows that do not start
\* later
InsertByFrom(list, row) ==
    IF list = <<>> THEN <<row>>
    ELSE IF TsLess(row.From, list[Len(list)].From)
         THEN Append(InsertByFrom(SubSeq(list, 1, Len(list) - 1), row),
                     list[Len(list)])
         ELSE Append(list, row)

RECURSIVE SortByFrom(_)
\* sort_values(by=['From'], ascending=True).reset_index(drop=True); rows
\* with the same From keep their order (short lists are sorted by insertion)
SortByFrom(list) ==
    IF list = <<>> THEN <<>>
    ELSE InsertByFrom(SortByFrom(SubSeq(list, 1, Len(list) - 1)),
                      list[Len(list)])

\* variant: ToDate >= pd.Timestamp(from_date)
EndsAfter_OrAt(row, from_date) == ~TsLess(row.ToDate, Timestamp(from_date, 0))

\* ToDate > pd.Timestamp(from_date)
EndsAfter(row, from_date) == TsLess(Timestamp(from_date, 0), row.ToDate)

\* The frame after the rename holds the timestamps From and To as FromDate
\* and ToDate.  With the window given as strings, the rows that end after
\* from_date are kept; FromDate becomes from_date where it was before it
\* and its own date elsewhere; of these the rows whose FromDate is before
\* to_date are kept; ToDate becomes to_date where it was after it and its
\* own date elsewhere.  The dates are day numbers.
process_measurement_list(dataframe, from_date, to_date) ==
    LET processed_list2 == SortByFrom(FillFrom(dataframe))
        renamed == [i \in 1 .. Len(processed_list2) |->
                       [Measurement |-> processed_list2[i].Measurement,
                        FromDate    |-> processed_list2[i].From,
                        ToDate      |-> processed_list2[i].To]]
        KeepFrom(row) == EndsAfter(row, from_date)
        kept1 == SelectSeq(renamed, KeepFrom)
        clipped1 == [i \in 1 .. Len(kept1) |->
                        [kept1[i] EXCEPT !.FromDate =
                            IF TsLess(kept1[i].FromDate, Timestamp(from_date, 0))
                            THEN from_date
                            ELSE kept1[i].FromDate.date]]
        KeepTo(row) == row.FromDate < to_date
        kept2 == SelectSeq(clipped1, KeepTo)
    IN  [i \in 1 .. Len(kept2) |->
            [kept2[i] EXCEPT !.ToDate =
                IF TsLess(Timestamp(to_date, 0), kept2[i].ToDate)
                THEN to_date
                ELSE kept2[i].ToDate.date]]

\* main: process_measurement_list(mslist, '2018-07-01', '2019-06-30')
WindowFrom == DaysFromCivil(2018, 7, 1)
WindowTo == DaysFromCivil(2019, 6, 30)

\* From and To of the rows of a measurement list, around the window: a
\* null start, a start before the window, inside it and on its last day;
\* an end at the start of the window, inside it and after it
RawFroms ==
    { NaT, Timestamp(WindowFrom - 1, 480), Timestamp(WindowFrom, 480),
      Timestamp(WindowTo - 1, 480), Timestamp(WindowTo, 0) }
RawTos ==
    { Timestamp(WindowFrom, 0), Timestamp(WindowFrom, 480),
      Timestamp(WindowTo - 1, 480), Timestamp(WindowTo, 480) }

\* a row of what get_measurement_list returns: the data of the
\* measurement begin at From and end at To
RawRows ==
    { r \in [Measurement : ListKinds, From : RawFroms, To : RawTos] :
        r.From.nat \/ ~TsLess(r.To, r.From) }

\* get_measurement_list(site), in any order of the rows
RawLists == UNION {[1 .. k -> RawRows] : k \in 1 .. MaxRows}

\* main has the measurement list of one site
InitList ==
    /\ \E mslist \in RawLists : site_list = << [mslist |-> mslist] >>
    /\ pc = "list"
    /\ wap = 1
    /\ mslist2 = <<>>
    /\ idx = 1
    /\ from_d = 0
    /\ requests = <<>>
    /\ wu_data = <<>>
    /\ vol_data = <<>>
    /\ neg_summary = <<>>
    /\ vol_data2 = <<>>
    /\ mean = NaNStat
    /\ sd = NaNStat
    /\ vol_stats = <<>>
    /\ daily_stats = <<>>
    /\ monthly_stats = <<>>
    /\ extraction_stats = NoFrame
    /\ monthly_stats2 = NoFrame
    /\ plot_data = <<>>
    /\ return_period = 0
    /\ export_response = "s"
    /\ stdout = <<>>
    /\ exported = <<>>
    /\ master = <<>>
    /\ meas_types = 0
    /\ data_exists = ""
    /\ neg_count = 0
    /\ outfile = <<>>
    /\ wap_modes = <<>>
    /\ files = <<>>
    /\ hourly_data1 = <<>>
    /\ hourly_data2 = <<>>

\* main, "Process measurement list"
ProcessMeasurementList ==
    /\ pc = "list"
    /\ mslist2' = process_measurement_list(site_list[wap].mslist,
                                           WindowFrom, WindowTo)
    /\ pc' = "listed"
    /\ UNCHANGED <<idx, from_d, requests, wu_data, Derived, Scripts>>

NextList == ProcessMeasurementList

SpecList == InitList /\ [][NextList]_vars

----------------------------------------------------------------------------
(* main of AnalyseTimeSeriesWithConsentConditionsWAPListDateV1.py: the     *)
(* loop over the list of sites                                             *)

\* sites of the list
MaxSites == 2

\* ws.get_data(base_url, hts, site, measurement, from_date, to_date): the
\* readings of the measurement the service holds for the site dated in the
\* range; it raises when there is none (an empty result stands for that)
get_data(site, measurement, from_date, to_date) ==
    LET InRange(r) == /\ r.Measurement = measurement
                      /\ from_date <= r.DateTime.date
                      /\ r.DateTime.date <= to_date
    IN  SelectSeq(site.data, InRange)

RECURSIVE ExtractRows(_, _, _, _)
\* the iterations k .. of the loop of extract_water_use_data, entered with
\* the cursor from_date: the rows appended to raw_data and the calls made
ExtractRows(dataframe, site, k, from_date) ==
    IF k > Len(dataframe) THEN [raw_data |-> <<>>, calls |-> <<>>]
    ELSE LET measurement == dataframe[k].Measurement
             to_d == dataframe[k].ToDate
         IN  IF from_date <= to_d
             THEN LET rest == ExtractRows(dataframe, site, k + 1, to_d + 1)
                  IN  [raw_data |->
                           get_data(site, measurement, from_date, to_d)
                               \o rest.raw_data,
                       calls |->
                           << [Measurement |-> measurement,
                               from_date   |-> from_date,
                               to_date     |-> to_d] >> \o rest.calls]
             ELSE ExtractRows(dataframe, site, k + 1, from_date)

\* variant: the rows are appended to the frame of the site before
extract_water_use_data_KeepRaw(dataframe, site) ==
    LET r == ExtractRows(dataframe, site, 1, dataframe[1].FromDate)
    IN  [r EXCEPT !.raw_data = wu_data \o r.raw_data]

\* extract_water_use_data(dataframe, site) for a dataframe with a row
extract_water_use_data(dataframe, site) ==
    ExtractRows(dataframe, site, 1, dataframe[1].FromDate)

\* readings of one measurement as <<day of the window, value>> pairs
WindowReadings(measurement, pairs) ==
    Readings(measurement,
             [i \in 1 .. Len(pairs) |-> WindowFrom + pairs[i][1]],
             [i \in 1 .. Len(pairs) |-> pairs[i][2]])

\* The sites a list is made of.  listed: ws.measurement_list knows the
\* site; mslist: what get_measurement_list returns; data: the readings the
\* service holds; consents: the ConsentedMultiDayPeriod of the consents of
\* the site, 0 for a site without consents.
\*   - a site the service does not know;
\*   - a site whose only measurement ends at the start of the window;
\*   - a Compliance Volume site with readings before and inside the window;
\*   - a site with meter readings followed by compliance volumes, the two
\*     measurements overlapping;
\*   - a site whose measurement overlaps the window but has no reading in it;
\*   - a meter whose only difference is negative.
SiteKinds ==
    { [Site |-> "A", listed |-> FALSE, mslist |-> <<>>, data |-> <<>>,
       consents |-> 0],
      [Site |-> "B", listed |-> TRUE,
       mslist |-> << [Measurement |-> "Compliance Volume",
                      From |-> Timestamp(WindowFrom - 100, 0),
                      To   |-> Timestamp(WindowFrom, 0)] >>,
       data |-> WindowReadings("Compliance Volume", << <<-50, 3>> >>),
       consents |-> 0],
      [Site |-> "C", listed |-> TRUE,
       mslist |-> << [Measurement |-> "Compliance Volume",
                      From |-> Timestamp(WindowFrom - 100, 0),
                      To   |-> Timestamp(WindowFrom + 60, 480)] >>,
       data |-> WindowReadings("Compliance Volume",
                    << <<-50, 9>>, <<1, 5>>, <<1, 0>>, <<40, 7>> >>),
       consents |-> 30],
      [Site |-> "M", listed |-> TRUE,
       mslist |-> << [Measurement |-> "Compliance Volume",
                      From |-> Timestamp(WindowFrom + 5, 0),
                      To   |-> Timestamp(WindowFrom + 40, 0)],
                     [Measurement |-> "Water Meter",
                      From |-> NaT,
                      To   |-> Timestamp(WindowFrom + 10, 0)] >>,
       data |-> WindowReadings("Water Meter",
                    << <<2, 10>>, <<3, 15>>, <<4, 12>> >>)
                \o WindowReadings("Compliance Volume",
                    << <<8, 99>>, <<20, 4>> >>),
       consents |-> 0],
      [Site |-> "D", listed |-> TRUE,
       mslist |-> << [Measurement |-> "Compliance Volume",
                      From |-> Timestamp(WindowFrom - 100, 0),
                      To   |-> Timestamp(WindowFrom + 60, 480)] >>,
       data |-> WindowReadings("Compliance Volume", << <<-50, 3>> >>),
       consents |-> 0],
      [Site |-> "F", listed |-> TRUE,
       mslist |-> << [Measurement |-> "Water Meter",
                      From |-> Timestamp(WindowFrom + 1, 0),
                      To   |-> Timestamp(WindowFrom + 9, 0)] >>,
       data |-> WindowReadings("Water Meter", << <<2, 10>>, <<3, 5>> >>),
       consents |-> 7] }

\* get_export_response
ExportResponses == {"s", "p", "b"}

\* main has read the site list and the export preferences
InitSites ==
    /\ site_list \in UNION {[1 .. k -> SiteKinds] : k \in 1 .. MaxSites}
    /\ export_response \in ExportResponses
    /\ pc = "site"
    /\ wap = 1
    /\ mslist2 = <<>>
    /\ idx = 1
    /\ from_d = 0
    /\ requests = <<>>
    /\ wu_data = <<>>
    /\ vol_data = <<>>
    /\ neg_summary = <<>>
    /\ vol_data2 = <<>>
    /\ mean = NaNStat
    /\ sd = NaNStat
    /\ vol_stats = <<>>
    /\ daily_stats = <<>>
    /\ monthly_stats = <<>>
    /\ extraction_stats = NoFrame
    /\ monthly_stats2 = NoFrame
    /\ plot_data = <<>>
    /\ return_period = 0
    /\ stdout = <<>>
    /\ exported = <<>>
    /\ master = <<>>
    /\ meas_types = 0
    /\ data_exists = ""
    /\ neg_count = 0
    /\ outfile = <<>>
    /\ wap_modes = <<>>
    /\ files = <<>>
    /\ hourly_data1 = <<>>
    /\ hourly_data2 = <<>>

\* what the loop of main does not touch
SiteFrame == <<site_list, export_response, idx, from_d, master, meas_types,
               data_exists, neg_count, outfile, wap_modes, files,
               hourly_data1, hourly_data2>>

\* print("{0} has no data in the Hilltop WaterUse.hts file".format(site))
NoDataReport(site) == [text |-> "has no data in the Hilltop WaterUse.hts file",
                       site |-> site.Site]

\* variant: the report is printed and the loop ends
Except_LoopEnds ==
    /\ stdout' = Append(stdout, NoDataReport(site_list[wap]))
    /\ wap' = wap
    /\ pc' = "raised"

\* the except branch: the report is printed and the loop goes on
Except ==
    /\ stdout' = Append(stdout, NoDataReport(site_list[wap]))
    /\ wap' = wap + 1
    /\ pc' = "site"

\* get_measurement_list raises: the service does not know the site
SiteLookupRaises ==
    /\ pc = "site"
    /\ wap <= Len(site_list)
    /\ ~site_list[wap].listed
    /\ Except
    /\ UNCHANGED <<SiteFrame, mslist2, requests, wu_data, Derived, exported>>

\* no row of the measurement list overlaps the window: FromDate.iloc[0]
\* raises in extract_water_use_data
SiteListEmpty ==
    /\ pc = "site"
    /\ wap <= Len(site_list)
    /\ site_list[wap].listed
    /\ mslist2' = process_measurement_list(site_list[wap].mslist,
                                           WindowFrom, WindowTo)
    /\ mslist2' = <<>>
    /\ Except
    /\ UNCHANGED <<SiteFrame, requests, wu_data, Derived, exported>>

\* no fetch returned a reading: the .dt accessor raises in
\* convert_water_use_data
SiteNoReadings ==
    /\ pc = "site"
    /\ wap <= Len(site_list)
    /\ site_list[wap].listed
    /\ mslist2' = process_measurement_list(site_list[wap].mslist,
                                           WindowFrom, WindowTo)
    /\ mslist2' # <<>>
    /\ LET r == extract_water_use_data(mslist2', site_list[wap])
       IN  /\ wu_data' = r.raw_data
           /\ requests' = requests \o r.calls
    /\ wu_data' = <<>>
    /\ Except
    /\ UNCHANGED <<SiteFrame, Derived, exported>>

\* "Initial extraction and processing" completes
SiteProcessed ==
    /\ pc = "site"
    /\ wap <= Len(site_list)
    /\ site_list[wap].listed
    /\ mslist2' = process_measurement_list(site_list[wap].mslist,
                                           WindowFrom, WindowTo)
    /\ mslist2' # <<>>
    /\ LET r == extract_water_use_data(mslist2', site_list[wap])
       IN  /\ wu_data' = r.raw_data
           /\ requests' = requests \o r.calls
    /\ wu_data' # <<>>
    /\ vol_data' = convert_water_use_data(wu_data')
    /\ neg_summary' = summarise_negative_values(vol_data')
    /\ vol_data2' = remove_negative_values(vol_data')
    /\ pc' = "processed"
    /\ UNCHANGED <<SiteFrame, wap, stdout, exported, mean, sd, vol_stats,
                   daily_stats, monthly_stats, Outputs>>

\* export_monthly_stats(mslist2, monthly_stats2, neg_summary, site)
StatisticsWorkbook(site, measurements, statistics, negatives) ==
    [Site |-> site.Site, kind |-> "Summary Stats",
     content |-> <<measurements, negatives, statistics>>]

\* "Create monthly summary stats and export to Excel"
SiteStatistics ==
    /\ pc = "processed"
    /\ export_response \in {"s", "b"}
    /\ LET p == calculate_spike_parameters(vol_data2)
       IN  /\ mean' = p.mean
           /\ sd' = p.sd
    /\ vol_stats' = detect_spikes(vol_data2, mean', sd')
    /\ daily_stats' = generate_daily_stats(vol_stats')
    /\ monthly_stats' = generate_monthly_stats(daily_stats')
    /\ extraction_stats' = generate_extraction_stats(vol_data2)
    /\ monthly_stats2' = combine_monthly_stats(monthly_stats', extraction_stats')
    /\ exported' = Append(exported,
                          StatisticsWorkbook(site_list[wap], mslist2,
                                             monthly_stats2', neg_summary))
    /\ pc' = "statistics done"
    /\ UNCHANGED <<SiteFrame, wap, stdout, mslist2, requests, wu_data, vol_data,
                   neg_summary, vol_data2, plot_data, return_period>>

\* "Monthly statistics have been bypassed"
SiteStatisticsBypassed ==
    /\ pc = "processed"
    /\ export_response = "p"
    /\ pc' = "statistics done"
    /\ UNCHANGED <<SiteFrame, wap, stdout, exported, mslist2, requests, wu_data,
                   Derived>>

\* generate_daily_plots1 / generate_daily_plots2
PlotsFile(site, dataframe, period) ==
    [Site |-> site.Site, kind |-> "Daily Plots",
     content |-> <<dataframe, period>>]

\* "Generate time series plots": scenario 1 for a site without consents,
\* scenario 2 for a site with consents
SitePlots ==
    /\ pc = "statistics done"
    /\ export_response \in {"p", "b"}
    /\ vol_data2 # <<>>
    /\ IF site_list[wap].consents = 0
       THEN /\ plot_data' = process_plot_data1(vol_data2)
            /\ exported' = Append(exported,
                                  PlotsFile(site_list[wap], plot_data', 0))
            /\ UNCHANGED return_period
       ELSE /\ return_period' = site_list[wap].consents
            /\ plot_data' = process_plot_data2(vol_data2, return_period')
            /\ exported' = Append(exported,
                                  PlotsFile(site_list[wap], plot_data',
                                            return_period'))
    /\ wap' = wap + 1
    /\ pc' = "site"
    /\ UNCHANGED <<SiteFrame, stdout, mslist2, requests, wu_data, vol_data,
                   neg_summary, vol_data2, mean, sd, vol_stats, daily_stats,
                   monthly_stats, extraction_stats, monthly_stats2>>

\* the filtered series is empty: from_date.year raises in process_plot_data1
\* or process_plot_data2
SitePlotsRaise ==
    /\ pc = "statistics done"
    /\ export_response \in {"p", "b"}
    /\ vol_data2 = <<>>
    /\ Except
    /\ UNCHANGED <<SiteFrame, exported, mslist2, requests, wu_data, Derived>>

\* "Time series plots have been bypassed"
SitePlotsBypassed ==
    /\ pc = "statistics done"
    /\ export_response = "s"
    /\ wap' = wap + 1
    /\ pc' = "site"
    /\ UNCHANGED <<SiteFrame, stdout, exported, mslist2, requests, wu_data,
                   Derived>>

NextSites ==
    \/ SiteLookupRaises
    \/ SiteListEmpty
    \/ SiteNoReadings
    \/ SiteProcessed
    \/ SiteStatistics
    \/ SiteStatisticsBypassed
    \/ SitePlots
    \/ SitePlotsRaise
    \/ SitePlotsBypassed

SpecSites == InitSites /\ [][NextSites]_vars

----------------------------------------------------------------------------
(* Quality Assessment - WAP List - Combined Series V1.py                   *)

\* process_measurement_list(dataframe) of the quality assessment: no
\* window, FromDate and ToDate are the dates of From and To
QA_process_measurement_list(dataframe) ==
    LET processed_list2 == SortByFrom(FillFrom(dataframe))
    IN  [i \in 1 .. Len(processed_list2) |->
            [Measurement |-> processed_list2[i].Measurement,
             FromDate    |-> processed_list2[i].From.date,
             ToDate      |-> processed_list2[i].To.date]]

\* extract_and_combine_data(dataframe, site) for a dataframe with a row
extract_and_combine_data(dataframe, site) ==
    ExtractRows(dataframe, site, 1, dataframe[1].FromDate)

\* summarise_negative_values of the quality assessment: the number of
\* negative volumes
QA_summarise_negative_values(dataframe) ==
    Len(SelectSeq(dataframe, IsNegative))

\* generate_summary_stats(dataframe, site, data_exists, meas_types,
\* neg_count, mean) for a dataframe with a row; MeanExtraction is the mean
\* rounded to one decimal, kept in tenths
generate_summary_stats(dataframe, site, exists, types, negatives, m) ==
    LET n == Len(dataframe)
        dates == {dataframe[i].Date : i \in 1 .. n}
        start_date == SetMin(dates)
        end_date == SetMax(dates)
        positive == {dataframe[i].Vol.v : i \in {j \in 1 .. n :
                                                    IsPositive(dataframe[j])}}
    IN  [Site |-> site.Site, InHilltop |-> exists,
         stats |->
           [MeasTypes      |-> types,
            MeasUsed       |->
                Cardinality({dataframe[i].Measurement : i \in 1 .. n}),
            StartDate      |-> start_date,
            EndDate        |-> end_date,
            TotalDays      |-> end_date - start_date + 1,
            DaysWithData   |-> Cardinality(dates),
            TotalReports   |-> CountRows(dataframe),
            MinExtraction  |-> IF positive = {} THEN NaN
                               ELSE Num(SetMin(positive)),
            MeanExtraction |-> IF m.nan THEN NaN
                               ELSE Num(RoundHalfEven(10 * m.num, m.den)),
            MaxExtraction  |->
                Num(SetMax({dataframe[i].Vol.v : i \in 1 .. n})),
            NegativeValues |-> negatives,
            Spikes5sd  |-> SumSeq([i \in 1 .. n |-> dataframe[i].sd5]),
            Spikes10sd |-> SumSeq([i \in 1 .. n |-> dataframe[i].sd10]),
            Spikes20sd |-> SumSeq([i \in 1 .. n |-> dataframe[i].sd20])]]

\* the statistics columns of a row that holds '' in each of them
Blank == [blank |-> TRUE]

\* variant: the statistics columns are those of the row appended last
record_missing_site_CarryOver(site, exists) ==
    [Site |-> site.Site, InHilltop |-> exists,
     stats |-> IF master = <<>> THEN Blank ELSE master[Len(master)].stats]

\* record_missing_site(site, data_exists)
record_missing_site(site, exists) ==
    [Site |-> site.Site, InHilltop |-> exists, stats |-> Blank]

\* main has read the site list and created the empty results frame
InitQA ==
    /\ site_list \in UNION {[1 .. k -> SiteKinds] : k \in 1 .. MaxSites}
    /\ master = <<>>
    /\ pc = "site"
    /\ wap = 1
    /\ export_response = "s"
    /\ mslist2 = <<>>
    /\ idx = 1
    /\ from_d = 0
    /\ requests = <<>>
    /\ wu_data = <<>>
    /\ vol_data = <<>>
    /\ neg_summary = <<>>
    /\ vol_data2 = <<>>
    /\ mean = NaNStat
    /\ sd = NaNStat
    /\ vol_stats = <<>>
    /\ daily_stats = <<>>
    /\ monthly_stats = <<>>
    /\ extraction_stats = NoFrame
    /\ monthly_stats2 = NoFrame
    /\ plot_data = <<>>
    /\ return_period = 0
    /\ stdout = <<>>
    /\ exported = <<>>
    /\ meas_types = 0
    /\ data_exists = ""
    /\ neg_count = 0
    /\ outfile = <<>>
    /\ wap_modes = <<>>
    /\ files = <<>>
    /\ hourly_data1 = <<>>
    /\ hourly_data2 = <<>>

\* what main of the quality assessment does not touch
QAFrame == <<site_list, export_response, idx, from_d, neg_summary,
             daily_stats, monthly_stats, Outputs, exported, outfile,
             wap_modes, files, hourly_data1, hourly_data2>>

\* get_measurement_list raises ValueError: the site is recorded as missing
QASiteMissing ==
    /\ pc = "site"
    /\ wap <= Len(site_list)
    /\ ~site_list[wap].listed
    /\ stdout' = Append(stdout, NoDataReport(site_list[wap]))
    /\ data_exists' = "N"
    /\ master' = Append(master,
                        record_missing_site(site_list[wap], data_exists'))
    /\ wap' = wap + 1
    /\ UNCHANGED <<QAFrame, pc, meas_types, mslist2, requests, wu_data,
                   vol_data, neg_count, vol_data2, mean, sd, vol_stats>>

\* the body of the loop for a site the service knows, up to the filtered
\* series
QASiteSeries(site) ==
    LET list == QA_process_measurement_list(site.mslist)
        r == extract_and_combine_data(list, site)
        converted == convert_water_use_data(r.raw_data)
    IN  [mslist2 |-> list, calls |-> r.calls, wu_data |-> r.raw_data,
         vol_data |-> converted,
         vol_data2 |-> remove_negative_values(converted)]

\* the site is in Hilltop: its statistics are appended to the results
QASiteAssessed ==
    /\ pc = "site"
    /\ wap <= Len(site_list)
    /\ site_list[wap].listed
    /\ site_list[wap].mslist # <<>>
    /\ meas_types' = Len(site_list[wap].mslist)
    /\ data_exists' = "Y"
    /\ LET r == QASiteSeries(site_list[wap])
       IN  /\ r.vol_data2 # <<>>
           /\ mslist2' = r.mslist2
           /\ requests' = requests \o r.calls
           /\ wu_data' = r.wu_data
           /\ vol_data' = r.vol_data
           /\ vol_data2' = r.vol_data2
    /\ neg_count' = QA_summarise_negative_values(vol_data')
    /\ LET p == calculate_spike_parameters(vol_data2')
       IN  /\ mean' = p.mean
           /\ sd' = p.sd
    /\ vol_stats' = detect_spikes(vol_data2', mean', sd')
    /\ master' = Append(master,
                        generate_summary_stats(vol_stats', site_list[wap],
                                               data_exists', meas_types',
                                               neg_count', mean'))
    /\ wap' = wap + 1
    /\ UNCHANGED <<QAFrame, pc, stdout>>

\* The site is in Hilltop but no reading with a volume >= 0 is extracted:
\* the .dt accessor of the empty frame raises in convert_water_use_data,
\* or (end_date - start_date).days raises in generate_summary_stats for
\* the empty filtered series.  Nothing catches it: main ends without
\* exporting the results.
QASiteRaises ==
    /\ pc = "site"
    /\ wap <= Len(site_list)
    /\ site_list[wap].listed
    /\ site_list[wap].mslist # <<>>
    /\ meas_types' = Len(site_list[wap].mslist)
    /\ data_exists' = "Y"
    /\ LET r == QASiteSeries(site_list[wap])
       IN  /\ r.vol_data2 = <<>>
           /\ mslist2' = r.mslist2
           /\ requests' = requests \o r.calls
           /\ wu_data' = r.wu_data
           /\ IF r.wu_data = <<>>
              THEN UNCHANGED <<vol_data, vol_data2, neg_count, mean, sd,
                               vol_stats>>
              ELSE /\ vol_data' = r.vol_data
                   /\ vol_data2' = r.vol_data2
                   /\ neg_count' = QA_summarise_negative_values(vol_data')
                   /\ mean' = NaNStat
                   /\ sd' = NaNStat
                   /\ vol_stats' = <<>>
    /\ pc' = "raised"
    /\ UNCHANGED <<QAFrame, wap, master, stdout>>

NextQA ==
    \/ QASiteMissing
    \/ QASiteAssessed
    \/ QASiteRaises

SpecQA == InitQA /\ [][NextQA]_vars

----------------------------------------------------------------------------
(* MissingDataTools/2.GenerateWeeklyMissingDataReport.py                   *)

\* the scripts of MissingDataTools hold no water use series
SeriesIdle ==
    /\ mslist2 = <<>>
    /\ idx = 1
    /\ from_d = 0
    /\ requests = <<>>
    /\ wu_data = <<>>
    /\ vol_data = <<>>
    /\ neg_summary = <<>>
    /\ vol_data2 = <<>>
    /\ mean = NaNStat
    /\ sd = NaNStat
    /\ vol_stats = <<>>
    /\ daily_stats = <<>>
    /\ monthly_stats = <<>>
    /\ extraction_stats = NoFrame
    /\ monthly_stats2 = NoFrame
    /\ plot_data = <<>>
    /\ return_period = 0

Series == <<mslist2, idx, from_d, wu_data, Derived>>

\* The Mode column of WAPReportingMode.csv: a count of readings per day, or
\* the text "No data".  int(mode) raises ValueError for the text.
ModeNoData == [nodata |-> TRUE, v |-> 0]
ModeOf(n) == [nodata |-> FALSE, v |-> n]
WeeklyModes == {ModeNoData, ModeOf(0), ModeOf(1), ModeOf(24)}

\* get_volume_data: the readings of the range (how many, and the DateTime
\* of the last, in minutes from year_start), or the exception ws.get_data
\* raises; a range without data raises ValueError
VolumeData(n, last) == [outcome |-> "data", count |-> n, last |-> last]
Raises(exception) == [outcome |-> exception, count |-> 0, last |-> 0]

\* what the service holds for a site: the year's range contains the week's
WeeklyFetches ==
    { [week |-> VolumeData(8, 520000), year |-> VolumeData(300, 520000)],
      [week |-> VolumeData(3, 519000), year |-> VolumeData(3, 519000)],
      [week |-> Raises("ValueError"), year |-> VolumeData(40, 90000)],
      [week |-> Raises("ValueError"), year |-> Raises("ValueError")],
      [week |-> Raises("ValueError"), year |-> Raises("KeyError")],
      [week |-> Raises("KeyError"), year |-> Raises("KeyError")] }

\* the rows of the reporting modes, with what the service answers for each
WeeklyRows ==
    {[Site |-> n, Mode |-> m, week |-> f.week, year |-> f.year] :
        n \in {"K37/0001", "L36/0002"}, m \in WeeklyModes, f \in WeeklyFetches}

\* the output file is open and its header written
InitWeekly ==
    /\ wap_modes \in UNION {[1 .. k -> WeeklyRows] : k \in 1 .. MaxSites}
    /\ wap = 1
    /\ outfile = <<>>
    /\ pc = "site"
    /\ SeriesIdle
    /\ site_list = <<>>
    /\ export_response = "s"
    /\ stdout = <<>>
    /\ exported = <<>>
    /\ master = <<>>
    /\ meas_types = 0
    /\ data_exists = ""
    /\ neg_count = 0
    /\ files = <<>>
    /\ hourly_data1 = <<>>
    /\ hourly_data2 = <<>>

\* what main of the weekly report does not touch
WeeklyFrame == <<pc, Series, requests, site_list, export_response, stdout,
                 exported, master, meas_types, data_exists, neg_count,
                 wap_modes, files, hourly_data1, hourly_data2>>

\* a line of the report; PercComplete is a percentage in tenths or a text
ReportLine(site, mode, text, tenths, known, last_report) ==
    [Site |-> site, Mode |-> mode,
     PercComplete |-> [text |-> text, tenths |-> tenths],
     LastReport |-> [known |-> known, t |-> last_report]]

\* round(weekly_total / expected * 100, 1) in tenths
perc_complete(row) ==
    RoundHalfEven(1000 * (row.week.count - 1), row.Mode.v * 7)

\* the week has data and int(mode) > 0
WeekReported ==
    /\ wap <= Len(wap_modes)
    /\ LET row == wap_modes[wap]
       IN  /\ row.week.outcome = "data"
           /\ ~row.Mode.nodata
           /\ row.Mode.v > 0
           /\ outfile' = Append(outfile,
                  ReportLine(row.Site, row.Mode, "", perc_complete(row),
                             TRUE, row.week.last))
    /\ wap' = wap + 1
    /\ UNCHANGED WeeklyFrame

\* the week has data and int(mode) == 0
WeekModeZero ==
    /\ wap <= Len(wap_modes)
    /\ LET row == wap_modes[wap]
       IN  /\ row.week.outcome = "data"
           /\ ~row.Mode.nodata
           /\ row.Mode.v = 0
           /\ outfile' = Append(outfile,
                  ReportLine(row.Site, row.Mode, "Mode equals 0!", 0,
                             TRUE, row.week.last))
    /\ wap' = wap + 1
    /\ UNCHANGED WeeklyFrame

\* ValueError is raised in the try block, by the fetch of the week or by
\* int(mode) of the mode "No data" (line 91, evaluated before the branch of
\* line 104 is reached): the handler fetches the year
WeekValueError ==
    /\ wap <= Len(wap_modes)
    /\ LET row == wap_modes[wap]
       IN  /\ \/ row.week.outcome = "ValueError"
              \/ row.week.outcome = "data" /\ row.Mode.nodata
           /\ outfile' = Append(outfile,
                  IF row.year.outcome = "data"
                  THEN ReportLine(row.Site, row.Mode, "No data in last week",
                                  0, TRUE, row.year.last)
                  ELSE IF row.year.outcome = "ValueError"
                  THEN ReportLine(row.Site, row.Mode, "Value error", 0,
                                  FALSE, 0)
                  ELSE ReportLine(row.Site, row.Mode, "Key error", 0,
                                  FALSE, 0))
    /\ wap' = wap + 1
    /\ UNCHANGED WeeklyFrame

\* the fetch of the week raises KeyError
WeekKeyError ==
    /\ wap <= Len(wap_modes)
    /\ LET row == wap_modes[wap]
       IN  /\ row.week.outcome = "KeyError"
           /\ outfile' = Append(outfile,
                  ReportLine(row.Site, row.Mode, "Key error", 0, FALSE, 0))
    /\ wap' = wap + 1
    /\ UNCHANGED WeeklyFrame

NextWeekly ==
    \/ WeekReported
    \/ WeekModeZero
    \/ WeekValueError
    \/ WeekKeyError

SpecWeekly == InitWeekly /\ [][NextWeekly]_vars

----------------------------------------------------------------------------
(* MissingDataTools/CompileWAPReportingModes.py                            *)

\* annual_data['Readings'].mode()[0]: the most frequent daily count, the
\* smallest of them when several are as frequent
ReadingsMode(readings) ==
    LET n == Len(readings)
        Count(v) == Cardinality({i \in 1 .. n : readings[i] = v})
        most == {readings[i] : i \in {j \in 1 .. n :
                    \A k \in 1 .. n : Count(readings[k]) <= Count(readings[j])}}
    IN  SetMin(most)

\* round(annual_data[annual_data.Readings == mode].shape[0]
\*       / len(annual_data), 2), in hundredths
ModeFreqOf(readings, mode) ==
    RoundHalfEven(100 * Cardinality({i \in 1 .. Len(readings) :
                                        readings[i] = mode}),
                  Len(readings))

\* get_volume_data of CompileWAPReportingModes: the readings counted for
\* each day of the range, or the exception ws.get_data raises
DailyCounts(readings) == [outcome |-> "data", Readings |-> readings]
FetchRaises(exception) == [outcome |-> exception, Readings |-> <<>>]

\* the Method column of a round, and the place of main in the rounds
Methods == <<"Annual", "Qtr1", "Qtr2", "Qtr3", "Qtr4">>
Rounds == <<"annual", "qtr1", "qtr2", "qtr3", "qtr4", "finished">>
Round == CHOOSE r \in 1 .. Len(Rounds) : Rounds[r] = pc

\* What the service answers for a site in the year and in the quarters 1
\* to 4.  A day with 24 readings, a day with none and a day with one
\* reading make the modes 24, 0 and (on a tie) 1.
ModeSites ==
    LET Z == DailyCounts(<<0, 0, 24>>)
        P == DailyCounts(<<24, 24, 0>>)
        T == DailyCounts(<<24, 1>>)
        V == FetchRaises("ValueError")
        K == FetchRaises("KeyError")
    IN  { [SiteName |-> "J36/0001", answers |-> <<V, P, P, P, P>>],
          [SiteName |-> "J36/0002", answers |-> <<K, P, P, P, P>>],
          [SiteName |-> "K37/0003", answers |-> <<P, T, Z, Z, Z>>],
          [SiteName |-> "K37/0004", answers |-> <<Z, T, P, P, P>>],
          [SiteName |-> "K37/0005", answers |-> <<Z, V, P, T, Z>>],
          [SiteName |-> "L36/0006", answers |-> <<Z, K, Z, T, P>>],
          [SiteName |-> "L36/0007", answers |-> <<Z, Z, V, K, P>>],
          [SiteName |-> "L36/0008", answers |-> <<Z, Z, V, K, Z>>],
          [SiteName |-> "M35/0009, Well 2", answers |-> <<P, P, P, P, P>>] }

\* ',' in site
HasComma(site) == site = "M35/0009, Well 2"

\* ws.get_data for the range of a round
Answer(site, r) ==
    (CHOOSE x \in ModeSites : x.SiteName = site).answers[r]

\* "{0},{1},{2},{3}\n".format(site, mode, mode_freq, method): the text of
\* ModeFreq is a number (in hundredths), nothing, or nan for NaN
FormatRow(site, mode, mode_freq, method) ==
    [Site |-> site, Mode |-> mode,
     ModeFreq |-> IF mode_freq.nan THEN [text |-> "nan", v |-> 0]
                  ELSE [text |-> "number", v |-> mode_freq.v],
     Method |-> method]

\* "{0},{1},,QtrN\n".format(site, qtr_mode)
FormatQuarterRow(site, qtr_mode, method) ==
    [Site |-> site, Mode |-> qtr_mode, ModeFreq |-> [text |-> "", v |-> 0],
     Method |-> method]

\* pd.read_csv of a round's file: an empty field and nan are read as NaN
read_csv(file) ==
    [i \in 1 .. Len(file) |->
        [Site |-> file[i].Site, Mode |-> file[i].Mode,
         ModeFreq |-> IF file[i].ModeFreq.text = "number"
                      THEN Num(file[i].ModeFreq.v) ELSE NaN,
         Method |-> file[i].Method]]

\* variant: every row is recalculated
Recalculated_Always(row) == TRUE

\* elif mode == 0 (if mode != 0 copies the row)
Recalculated(row) == row.Mode = 0

\* main has the site list and has opened WAPMode_Round1.csv
InitModes ==
    /\ site_list \in {l \in UNION {[1 .. k -> ModeSites] : k \in 1 .. MaxSites} :
                        \A i \in DOMAIN l, j \in DOMAIN l :
                            l[i] = l[j] => i = j}
    /\ pc = "annual"
    /\ wap = 1
    /\ outfile = <<>>
    /\ wap_modes = <<>>
    /\ files = <<>>
    /\ SeriesIdle
    /\ export_response = "s"
    /\ stdout = <<>>
    /\ exported = <<>>
    /\ master = <<>>
    /\ meas_types = 0
    /\ data_exists = ""
    /\ neg_count = 0
    /\ hourly_data1 = <<>>
    /\ hourly_data2 = <<>>

\* what main of CompileWAPReportingModes does not touch
ModesFrame == <<Series, site_list, export_response, stdout, exported,
                master, meas_types, data_exists, neg_count, hourly_data1,
                hourly_data2>>

\* the fetch of a round for a site, as main records nothing of it
Fetched(site) == Append(requests, [Site |-> site, round |-> Round])

\* annual round: the mode of the year is written
AnnualWritten ==
    /\ pc = "annual"
    /\ wap <= Len(site_list)
    /\ LET site == site_list[wap].SiteName
           annual_data == Answer(site, 1)
       IN  /\ ~HasComma(site)
           /\ annual_data.outcome = "data"
           /\ requests' = Fetched(site)
           /\ LET mode == ReadingsMode(annual_data.Readings)
                  mode_freq == ModeFreqOf(annual_data.Readings, mode)
              IN  outfile' = Append(outfile,
                      FormatRow(site, mode, Num(mode_freq), Methods[1]))
    /\ wap' = wap + 1
    /\ UNCHANGED <<ModesFrame, pc, wap_modes, files>>

\* annual round: ValueError or KeyError, nothing is written for the site
AnnualRaises ==
    /\ pc = "annual"
    /\ wap <= Len(site_list)
    /\ LET site == site_list[wap].SiteName
       IN  /\ ~HasComma(site)
           /\ Answer(site, 1).outcome \in {"ValueError", "KeyError"}
           /\ requests' = Fetched(site)
    /\ wap' = wap + 1
    /\ UNCHANGED <<ModesFrame, pc, outfile, wap_modes, files>>

\* annual round: a site with a comma in its name is skipped
AnnualSkipped ==
    /\ pc = "annual"
    /\ wap <= Len(site_list)
    /\ HasComma(site_list[wap].SiteName)
    /\ wap' = wap + 1
    /\ UNCHANGED <<ModesFrame, pc, requests, outfile, wap_modes, files>>

\* the file of the round is closed; the next round reads it and opens the
\* next file, and after the fourth quarter main returns
CloseRound ==
    /\ pc # "finished"
    /\ wap > (IF pc = "annual" THEN Len(site_list) ELSE Len(wap_modes))
    /\ files' = Append(files, outfile)
    /\ wap_modes' = IF pc = "qtr4" THEN wap_modes ELSE read_csv(outfile)
    /\ outfile' = <<>>
    /\ wap' = 1
    /\ pc' = Rounds[Round + 1]
    /\ UNCHANGED <<ModesFrame, requests>>

\* variant: the row of a site whose fetch raises is not written
QuarterRaises_NotWritten ==
    /\ pc \in {"qtr1", "qtr2", "qtr3", "qtr4"}
    /\ wap <= Len(wap_modes)
    /\ LET row == wap_modes[wap]
       IN  /\ Recalculated(row)
           /\ Answer(row.Site, Round).outcome \in {"ValueError", "KeyError"}
           /\ requests' = Fetched(row.Site)
    /\ wap' = wap + 1
    /\ UNCHANGED <<ModesFrame, pc, outfile, wap_modes, files>>

\* quarter round, mode != 0: the row is copied
QuarterKept ==
    /\ pc \in {"qtr1", "qtr2", "qtr3", "qtr4"}
    /\ wap <= Len(wap_modes)
    /\ LET row == wap_modes[wap]
       IN  /\ ~Recalculated(row)
           /\ outfile' = Append(outfile,
                  FormatRow(row.Site, row.Mode, row.ModeFreq, row.Method))
    /\ wap' = wap + 1
    /\ UNCHANGED <<ModesFrame, pc, requests, wap_modes, files>>

\* quarter round, mode == 0 and the mode of the quarter > 0
QuarterRecalculated ==
    /\ pc \in {"qtr1", "qtr2", "qtr3", "qtr4"}
    /\ wap <= Len(wap_modes)
    /\ LET row == wap_modes[wap]
           qtr_data == Answer(row.Site, Round)
       IN  /\ Recalculated(row)
           /\ qtr_data.outcome = "data"
           /\ ReadingsMode(qtr_data.Readings) > 0
           /\ requests' = Fetched(row.Site)
           /\ outfile' = Append(outfile,
                  FormatQuarterRow(row.Site,
                                   ReadingsMode(qtr_data.Readings),
                                   Methods[Round]))
    /\ wap' = wap + 1
    /\ UNCHANGED <<ModesFrame, pc, wap_modes, files>>

\* quarter round, mode == 0 and the mode of the quarter == 0
QuarterStillZero ==
    /\ pc \in {"qtr1", "qtr2", "qtr3", "qtr4"}
    /\ wap <= Len(wap_modes)
    /\ LET row == wap_modes[wap]
           qtr_data == Answer(row.Site, Round)
       IN  /\ Recalculated(row)
           /\ qtr_data.outcome = "data"
           /\ ReadingsMode(qtr_data.Readings) = 0
           /\ requests' = Fetched(row.Site)
           /\ outfile' = Append(outfile,
                  FormatRow(row.Site, row.Mode, row.ModeFreq, row.Method))
    /\ wap' = wap + 1
    /\ UNCHANGED <<ModesFrame, pc, wap_modes, files>>

\* quarter round, mode == 0 and the fetch raises ValueError or KeyError
QuarterRaises ==
    /\ pc \in {"qtr1", "qtr2", "qtr3", "qtr4"}
    /\ wap <= Len(wap_modes)
    /\ LET row == wap_modes[wap]
       IN  /\ Recalculated(row)
           /\ Answer(row.Site, Round).outcome \in {"ValueError", "KeyError"}
           /\ requests' = Fetched(row.Site)
           /\ outfile' = Append(outfile,
                  FormatRow(row.Site, row.Mode, row.ModeFreq, row.Method))
    /\ wap' = wap + 1
    /\ UNCHANGED <<ModesFrame, pc, wap_modes, files>>

NextModes ==
    \/ AnnualWritten
    \/ AnnualRaises
    \/ AnnualSkipped
    \/ CloseRound
    \/ QuarterKept
    \/ QuarterRecalculated
    \/ QuarterStillZero
    \/ QuarterRaises

SpecModes == InitModes /\ [][NextModes]_vars

----------------------------------------------------------------------------
(* MissingDataTools/3a.CreateDailyandHourlyPlots-SingleWAPV2.py            *)

\* the most hourly totals of a month the model draws
MaxHours == 3

\* start_date_month and end_date of main, three days apart in the model
start_date_month == DaysFromCivil(2020, 1, 30)
end_date == start_date_month + 2

\* pd.date_range(from_date, to_date) as dates
alldates(from_date, to_date) == from_date .. to_date

\* series.astype(int) of a value held in tenths: the fraction is cut off,
\* towards zero; the result is held in tenths as well
AsTypeInt(tenths) ==
    IF tenths >= 0 THEN 10 * (tenths \div 10)
    ELSE -(10 * ((-tenths) \div 10))

\* a row of the hourly totals; Volume is the sum of the readings in tenths
HourlyRow(date, hour, readings, volume) ==
    [Date |-> date, Month |-> DtMonth(date), DayVal |-> DtDay(date),
     Hour |-> hour, Readings |-> readings, Volume |-> volume]

RECURSIVE SortByDateHour(_)
\* sort_values(by=['Date','Hour']) of rows with different dates or hours
SortByDateHour(rows) ==
    IF rows = {} THEN <<>>
    ELSE LET first == CHOOSE r \in rows : \A q \in rows :
                          \/ r.Date < q.Date
                          \/ r.Date = q.Date /\ r.Hour <= q.Hour
         IN  <<first>> \o SortByDateHour(rows \ {first})

\* add_missing_dates(hourly_vol1, from_date, to_date)
add_missing_dates(hourly_vol1, from_date, to_date) ==
    LET n == Len(hourly_vol1)
        dates_with_data == {hourly_vol1[i].Date : i \in 1 .. n}
        missing_dates == alldates(from_date, to_date) \ dates_with_data
        merged == {HourlyRow(hourly_vol1[i].Date,
                             hourly_vol1[i].Hour,
                             hourly_vol1[i].Readings,
                             AsTypeInt(hourly_vol1[i].Volume)) : i \in 1 .. n}
                  \cup {HourlyRow(d, 0, 0, 0) : d \in missing_dates}
    IN  SortByDateHour(merged)

\* The results of process_hourly_data: a row for each hour with a reading,
\* in the order of the groups.  The hours hold one, two or four readings
\* of 0.5, 1.7 (twice 0.85), 3.0 and -1.5 in all.
HourlyFrames ==
    LET totals == {<<1, 5>>, <<2, 17>>, <<4, 30>>, <<1, -15>>}
        hours == alldates(start_date_month, end_date) \X {0, 13}
    IN  UNION {
          {SortByDateHour({HourlyRow(k[1], k[2], t[k][1], t[k][2])
                              : k \in keys})
              : t \in [keys -> totals]}
          : keys \in {K \in SUBSET hours :
                         Cardinality(K) \in 1 .. MaxHours} }

\* main has the hourly totals of the month
InitHourly ==
    /\ hourly_data1 \in HourlyFrames
    /\ hourly_data2 = <<>>
    /\ pc = "hourly"
    /\ SeriesIdle
    /\ site_list = <<>>
    /\ wap = 1
    /\ export_response = "s"
    /\ stdout = <<>>
    /\ exported = <<>>
    /\ master = <<>>
    /\ meas_types = 0
    /\ data_exists = ""
    /\ neg_count = 0
    /\ outfile = <<>>
    /\ wap_modes = <<>>
    /\ files = <<>>

\* main: hourly_data2 = add_missing_dates(hourly_data1, start_date_month,
\* end_date)
AddMissingDates ==
    /\ pc = "hourly"
    /\ hourly_data2' = add_missing_dates(hourly_data1, start_date_month,
                                         end_date)
    /\ pc' = "hourly plots"
    /\ UNCHANGED <<Series, requests, site_list, wap, export_response,
                   stdout, exported, master, meas_types, data_exists,
                   neg_count, outfile, wap_modes, files, hourly_data1>>

NextHourly == AddMissingDates

SpecHourly == InitHourly /\ [][NextHourly]_vars

----------------------------------------------------------------------------
(* Properties                                                              *)

\* main has run convert / summarise / remove on the extracted table
Processed == pc \in {"statistics", "done"}

IsMeter(row) == row.Measurement = "Water Meter"

RECURSIVE KeepInOrder(_, _, _, _)
\* the rows lo .. hi of df whose index is in keep, in their order
KeepInOrder(df, keep, lo, hi) ==
    IF lo > hi THEN <<>>
    ELSE IF lo = hi THEN (IF lo \in keep THEN <<df[lo]>> ELSE <<>>)
    ELSE LET mid == (lo + hi) \div 2
         IN  KeepInOrder(df, keep, lo, mid) \o KeepInOrder(df, keep, mid + 1, hi)

RECURSIVE SumOver(_, _)
\* the sum of f[k] over the keys k in S
SumOver(f, S) ==
    IF S = {} THEN 0
    ELSE LET k == CHOOSE x \in S : TRUE
         IN  f[k] + SumOver(f, S \ {k})

\* the number of records the negative-value summary counts
NegativesCounted ==
    SumOver([m \in DOMAIN neg_summary |-> neg_summary[m].NegativeValueCount],
            DOMAIN neg_summary)

(* C1: every reading whose measurement kind is not 'Water Meter' gets Vol  *)
(* equal to its raw Value, whatever readings precede or follow it.         *)
C1_NonMeterVolIsValue ==
    Processed =>
        /\ Len(vol_data) = Len(wu_data)
        /\ \A i \in 1 .. Len(wu_data) :
              ~IsMeter(wu_data[i]) =>
                  /\ IsNum(vol_data[i].Vol)
                  /\ vol_data[i].Vol.v = wu_data[i].Value

\* a non-meter reading that directly follows a meter reading with another
\* raw value has been converted
C1_Witness ==
    /\ Processed
    /\ \E i \in 2 .. Len(wu_data) :
          /\ ~IsMeter(wu_data[i])
          /\ IsMeter(wu_data[i - 1])
          /\ wu_data[i - 1].Value # wu_data[i].Value

(* C2: in a sequence of 'Water Meter' readings, reading i (i > 0) gets the *)
(* volume raw[i] - raw[i-1] with its sign; raw values 10, 15, 12, 20 give  *)
(* 5, -3, 8 after the first record.                                        *)
C2_MeterVolIsDifference ==
    Processed =>
        /\ \A i \in 2 .. Len(wu_data) :
              (IsMeter(wu_data[i]) /\ IsMeter(wu_data[i - 1])) =>
                  /\ IsNum(vol_data[i].Vol)
                  /\ vol_data[i].Vol.v = wu_data[i].Value - wu_data[i - 1].Value
        /\ ( /\ [i \in 1 .. Len(wu_data) |-> wu_data[i].Value] = <<10, 15, 12, 20>>
             /\ \A i \in 1 .. Len(wu_data) : IsMeter(wu_data[i]) )
           => [i \in 2 .. 4 |-> vol_data[i].Vol] =
                  [i \in 2 .. 4 |-> Num(<<0, 5, -3, 8>>[i])]

\* the meter series 10, 15, 12, 20 has been converted
C2_Witness ==
    /\ Processed
    /\ [i \in 1 .. Len(wu_data) |-> wu_data[i].Value] = <<10, 15, 12, 20>>
    /\ \A i \in 1 .. Len(wu_data) : IsMeter(wu_data[i])
    /\ vol_data[3].Vol = Num(-3)

(* C3: the first 'Water Meter' reading of every run of Water Meter         *)
(* readings has a missing volume, also when the run begins after readings  *)
(* of another kind: it is never differenced against a reading of another   *)
(* kind.                                                                   *)
C3_FirstOfRunIsMissing ==
    Processed =>
        \A i \in 1 .. Len(wu_data) :
            (IsMeter(wu_data[i]) /\ (i = 1 \/ ~IsMeter(wu_data[i - 1])))
                => vol_data[i].Vol = NaN

(* C4: no reading is silently dropped: every extracted reading is either   *)
(* in the filtered series or counted in the negative-value summary (the    *)
(* pipeline has no other output that could expose an unresolved record).   *)
C4_NoReadingDropped ==
    Processed =>
        Len(vol_data2) + NegativesCounted = Len(wu_data)

(* C5: the negative-value summary is computed from the series before the   *)
(* filter: it has a row for exactly the months that hold a negative        *)
(* volume, with the count and the sum of that month's negative volumes;    *)
(* the counts add up to the number of negative records.  Volumes           *)
(* -2, -2, 5, -1 in one month give count 3 and sum -5.                     *)
C5_NegativeSummary ==
    Processed =>
        LET neg == {i \in 1 .. Len(vol_data) :
                       IsNum(vol_data[i].Vol) /\ vol_data[i].Vol.v < 0}
            month(i) == MonthKey(vol_data[i].DateTime.date)
        IN  /\ DOMAIN neg_summary = {month(i) : i \in neg}
            /\ \A m \in DOMAIN neg_summary :
                  /\ neg_summary[m].NegativeValueCount =
                         Cardinality({i \in neg : month(i) = m})
                  /\ neg_summary[m].NegativeValueSum =
                         SumSeq([i \in 1 .. Len(vol_data) |->
                                    IF i \in neg /\ month(i) = m
                                    THEN vol_data[i].Vol.v ELSE 0])
            /\ NegativesCounted = Cardinality(neg)
            /\ [i \in 1 .. Len(vol_data) |-> vol_data[i].Vol]
                   = [i \in 1 .. 4 |-> Num(<<-2, -2, 5, -1>>[i])]
               => \E m \in DOMAIN neg_summary :
                     /\ DOMAIN neg_summary = {m}
                     /\ neg_summary[m].NegativeValueCount = 3
                     /\ neg_summary[m].NegativeValueSum = -5

\* the volumes -2, -2, 5, -1 of February 2021 have been summarised
C5_Witness ==
    /\ Processed
    /\ [i \in 1 .. Len(vol_data) |-> vol_data[i].Vol]
           = [i \in 1 .. 4 |-> Num(<<-2, -2, 5, -1>>[i])]
    /\ DOMAIN neg_summary = {<<"2", "0", "2", "1", "-", "0", "2">>}
    /\ Len(vol_data2) = 1

(* C6: remove_negative_values returns a series without any record of       *)
(* volume < 0 that retains every record of volume >= 0 (zero included),    *)
(* in the original order and unchanged.                                    *)
C6_FilteredSeries ==
    Processed =>
        /\ \A j \in 1 .. Len(vol_data2) : ~(vol_data2[j].Vol.v < 0)
        /\ LET atLeastZero == {i \in 1 .. Len(vol_data) :
                                  ~vol_data[i].Vol.nan /\ vol_data[i].Vol.v >= 0}
           IN  vol_data2 = KeepInOrder(vol_data, atLeastZero, 1, Len(vol_data))

\* a negative record was removed and a zero-volume record was kept
C6_Witness ==
    /\ Processed
    /\ \E i \in 1 .. Len(vol_data) : IsNegative(vol_data[i])
    /\ \E j \in 1 .. Len(vol_data2) : vol_data2[j].Vol = Num(0)
    /\ Len(vol_data2) >= 2

(* C7: mean and standard deviation are estimated from the records with   *)
(* volume > 0 only, so zero-volume records, added or removed, change       *)
(* neither them nor the thresholds; the zero-volume records are still      *)
(* counted in the daily reading counts and the monthly total reports.      *)
C7_ZeroVolumeRecords ==
    pc = "done" =>
        LET n == Len(vol_data2)
            pos == {i \in 1 .. n : vol_data2[i].Vol.v > 0}
            np == Cardinality(pos)
            sum == SumSeq([i \in 1 .. n |->
                              IF i \in pos THEN vol_data2[i].Vol.v ELSE 0])
            sumsq == SumSeq([i \in 1 .. n |->
                                IF i \in pos
                                THEN vol_data2[i].Vol.v * vol_data2[i].Vol.v
                                ELSE 0])
            notZero == {i \in 1 .. n : vol_data2[i].Vol.v # 0}
            zero == [vol_data2[1] EXCEPT !.Vol = Num(0)]
        IN  /\ mean = IF np = 0 THEN NaNStat
                      ELSE [nan |-> FALSE, num |-> sum, den |-> np]
            /\ sd = IF np < 2 THEN NaNStat
                    ELSE [nan |-> FALSE, num |-> np * sumsq - sum * sum,
                          den |-> np * (np - 1)]
            /\ calculate_spike_parameters(KeepInOrder(vol_data2, notZero, 1, n))
                   = [mean |-> mean, sd |-> sd]
            /\ n > 0 => calculate_spike_parameters(vol_data2 \o <<zero>>)
                            = [mean |-> mean, sd |-> sd]
            /\ \A j \in 1 .. Len(daily_stats) :
                  daily_stats[j].Vol =
                      Cardinality({i \in 1 .. n :
                                      vol_data2[i].Date = daily_stats[j].Date})
            /\ SumOver([m \in DOMAIN monthly_stats |->
                           monthly_stats[m].MeterReports],
                       DOMAIN monthly_stats) = n

\* statistics of a series that holds zero-volume records and at least two
\* positive ones
C7_Witness ==
    /\ pc = "done"
    /\ \E i \in 1 .. Len(vol_data2) : vol_data2[i].Vol = Num(0)
    /\ ~sd.nan
    /\ mean.den < Len(vol_data2)
    /\ \E j \in 1 .. Len(daily_stats) : daily_stats[j].Vol > mean.den

(* C8: a spike flag is set only when the positive-volume subset has a      *)
(* standard deviation >= 1 and more than 100 records, however many         *)
(* zero-volume records the series holds.                                   *)
C8_FlagsNeedLargePositiveSample ==
    pc = "done" =>
        LET np == Cardinality({i \in 1 .. Len(vol_data2) :
                                  vol_data2[i].Vol.v > 0})
        IN  (\E i \in 1 .. Len(vol_stats) :
                 vol_stats[i].sd5 + vol_stats[i].sd10 + vol_stats[i].sd20 > 0)
                => (SdAtLeastOne(sd) /\ np > MinSeriesLength)

(* C9: the flags are nested: sd20 = 1 implies sd10 = 1 and sd10 = 1        *)
(* implies sd5 = 1 for every record, hence in every daily and monthly row  *)
(* Spikes > 20sd <= Spikes > 10sd <= Spikes > 5sd.                         *)
C9_FlagsNested ==
    pc = "done" =>
        /\ \A i \in 1 .. Len(vol_stats) :
              /\ vol_stats[i].sd20 = 1 => vol_stats[i].sd10 = 1
              /\ vol_stats[i].sd10 = 1 => vol_stats[i].sd5 = 1
        /\ \A j \in 1 .. Len(daily_stats) :
              /\ daily_stats[j].sd20 <= daily_stats[j].sd10
              /\ daily_stats[j].sd10 <= daily_stats[j].sd5
        /\ \A m \in DOMAIN monthly_stats :
              /\ monthly_stats[m].Spikes20sd <= monthly_stats[m].Spikes10sd
              /\ monthly_stats[m].Spikes10sd <= monthly_stats[m].Spikes5sd

\* a record flagged at 20 sd, counted in its daily and monthly row
C9_Witness ==
    /\ pc = "done"
    /\ \E i \in 1 .. Len(vol_stats) : vol_stats[i].sd20 = 1
    /\ \E j \in 1 .. Len(daily_stats) : daily_stats[j].sd20 = 1
    /\ \E m \in DOMAIN monthly_stats : monthly_stats[m].Spikes20sd = 1

\* v > mean + k * sd for the mean and sd of the state
Above(v, k) ==
    /\ ~mean.nan /\ ~sd.nan
    /\ v * mean.den > mean.num
    /\ FracGT((v * mean.den - mean.num) * (v * mean.den - mean.num),
              k * k * mean.den * mean.den, sd.num, sd.den)

(* C10: when the guard of detect_spikes holds, each flag is evaluated      *)
(* against its own threshold: for k in {5, 10, 20} a record is flagged     *)
(* iff its volume strictly exceeds mean + k * sd.  With mean 10, sd 2 and  *)
(* 150 records, a volume of 31 is flagged at 5 and 10 sd, not at 20 sd,    *)
(* and a volume of 20 (the 5 sd threshold) is not flagged.                 *)
C10_FlagIffAboveThreshold ==
    pc = "done" =>
        LET guard == /\ ~sd.nan /\ sd.num >= sd.den
                     /\ Len(vol_stats) > MinSeriesLength
        IN  \A i \in 1 .. Len(vol_stats) :
              LET v == vol_stats[i].Vol.v
              IN  /\ vol_stats[i].sd5 = 1 <=> (guard /\ Above(v, 5))
                  /\ vol_stats[i].sd10 = 1 <=> (guard /\ Above(v, 10))
                  /\ vol_stats[i].sd20 = 1 <=> (guard /\ Above(v, 20))
                  /\ \A q \in 1 .. 3 :
                        ( /\ guard
                          /\ mean.num % mean.den = 0
                          /\ sd.num = q * q * sd.den )
                        => LET mu == mean.num \div mean.den
                           IN  /\ vol_stats[i].sd5 = 1 <=> v > mu + 5 * q
                               /\ vol_stats[i].sd10 = 1 <=> v > mu + 10 * q
                               /\ vol_stats[i].sd20 = 1 <=> v > mu + 20 * q

\* mean 10, sd 2, 150 records: 31 is flagged at 5 and 10 sd only, and 20
\* is not flagged
C10_Witness ==
    /\ pc = "done"
    /\ Len(vol_stats) = 150
    /\ ~mean.nan /\ mean.num = 10 * mean.den
    /\ ~sd.nan /\ sd.num = 4 * sd.den
    /\ \E i \in 1 .. Len(vol_stats) :
          /\ vol_stats[i].Vol = Num(31)
          /\ vol_stats[i].sd5 = 1
          /\ vol_stats[i].sd10 = 1
          /\ vol_stats[i].sd20 = 0
    /\ \E i \in 1 .. Len(vol_stats) :
          /\ vol_stats[i].Vol = Num(20)
          /\ vol_stats[i].sd5 = 0

(* C11: a degenerate spike sample never raises: when the positive-volume   *)
(* subset is empty or has a single record (mean and/or sd undefined) or    *)
(* has sd < 1, calculate_spike_parameters and detect_spikes complete and   *)
(* return the series with all three flags 0 on every record and with the   *)
(* volumes unchanged.  (Statistics has no raising branch: mean() and std() *)
(* of too short a series are NaN, and NaN >= 1 is False.)                  *)
C11_DegenerateSampleNoFlags ==
    pc = "done" =>
        LET np == Cardinality({i \in 1 .. Len(vol_data2) :
                                  vol_data2[i].Vol.v > 0})
        IN  /\ np = 0 => mean.nan
            /\ np < 2 => sd.nan
            /\ (np < 2 \/ sd.nan \/ sd.num < sd.den) =>
                  /\ Len(vol_stats) = Len(vol_data2)
                  /\ \A i \in 1 .. Len(vol_stats) :
                        /\ vol_stats[i].sd5 = 0
                        /\ vol_stats[i].sd10 = 0
                        /\ vol_stats[i].sd20 = 0
                        /\ vol_stats[i].Vol = vol_data2[i].Vol
                        /\ vol_stats[i].DateTime = vol_data2[i].DateTime

\* more than 100 records with a defined sd below 1, one of them more than
\* 5 sd above the mean and still not flagged
C11_Witness ==
    /\ pc = "done"
    /\ Len(vol_stats) > MinSeriesLength
    /\ ~sd.nan /\ sd.num < sd.den
    /\ \E i \in 1 .. Len(vol_stats) :
          /\ Above(vol_stats[i].Vol.v, 5)
          /\ vol_stats[i].sd5 = 0

\* the rows of a daily table describe the records of a flagged series:
\* one row per date with a record, in ascending order of date, with the
\* number of records, the number of flagged records per threshold and the
\* greatest measurement label of the date
IsDailyTableOf(daily, flagged) ==
    LET dates == {flagged[i].Date : i \in 1 .. Len(flagged)}
    IN  /\ {daily[j].Date : j \in 1 .. Len(daily)} = dates
        /\ Len(daily) = Cardinality(dates)
        /\ \A j \in 1 .. Len(daily) - 1 : daily[j].Date < daily[j + 1].Date
        /\ \A j \in 1 .. Len(daily) :
              LET on == {i \in 1 .. Len(flagged) :
                            flagged[i].Date = daily[j].Date}
              IN  /\ daily[j].Vol = Cardinality(on)
                  /\ daily[j].sd5 =
                         Cardinality({i \in on : flagged[i].sd5 = 1})
                  /\ daily[j].sd10 =
                         Cardinality({i \in on : flagged[i].sd10 = 1})
                  /\ daily[j].sd20 =
                         Cardinality({i \in on : flagged[i].sd20 = 1})
                  /\ \E i \in on :
                         daily[j].Measurement = flagged[i].Measurement
                  /\ \A i \in on :
                         LabelRank(flagged[i].Measurement)
                             <= LabelRank(daily[j].Measurement)

(* C12: generate_daily_stats produces exactly one row per calendar date    *)
(* that has at least one record in the spike-flagged series and no row     *)
(* for another date; the row's reading count is the number of records of   *)
(* that date, each spike sum the number of that date's records with the    *)
(* flag set, and the measurement label the maximum label among that        *)
(* date's records (also for a series whose first record carries another    *)
(* label than the rest of its date).                                       *)
C12_DailyStats ==
    pc = "done" =>
        /\ IsDailyTableOf(daily_stats, vol_stats)
        /\ \A label \in MeasurementKinds :
              Len(vol_stats) > 0 =>
                  LET relabelled ==
                          [vol_stats EXCEPT ![1].Measurement = label]
                  IN  IsDailyTableOf(generate_daily_stats(relabelled),
                                     relabelled)

\* two dates with records, one of them with several records of which
\* one is flagged
C12_Witness ==
    /\ pc = "done"
    /\ Len(daily_stats) = 2
    /\ \E j \in 1 .. Len(daily_stats) :
          /\ daily_stats[j].Vol > 1
          /\ daily_stats[j].sd5 = 1
    /\ Len(vol_stats) > 2

\* the statistics stage has run (series of several months)
StatsDone == pc \in {"done", "combined", "plotted", "plotted1", "plotted2"}

\* the number of days of the month a date lies in
DaysInMonthOf(date) ==
    LET y == DtYear(date)
        m == DtMonth(date)
    IN  (IF m = 12 THEN DaysFromCivil(y + 1, 1, 1)
                   ELSE DaysFromCivil(y, m + 1, 1)) - DaysFromCivil(y, m, 1)

(* C13: generate_monthly_stats applied to the daily table gives per month  *)
(* days-with-data = the number of daily rows (distinct dates with          *)
(* records) of the month and total reports = the sum of their reading      *)
(* counts; so the total reports of all months add up to the number of      *)
(* records of the negative-filtered series, and days-with-data exceeds     *)
(* neither the number of days of the month nor the month's total reports.  *)
C13_MonthlyStats ==
    StatsDone =>
        /\ DOMAIN monthly_stats =
               {daily_stats[j].Month : j \in 1 .. Len(daily_stats)}
        /\ \A m \in DOMAIN monthly_stats :
              LET rows == {j \in 1 .. Len(daily_stats) :
                              daily_stats[j].Month = m}
                  recs == {i \in 1 .. Len(vol_data2) :
                              MonthKey(vol_data2[i].Date) = m}
              IN  /\ monthly_stats[m].DaysWithData = Cardinality(rows)
                  /\ monthly_stats[m].DaysWithData =
                         Cardinality({vol_data2[i].Date : i \in recs})
                  /\ monthly_stats[m].MeterReports =
                         SumSeq([j \in 1 .. Len(daily_stats) |->
                                    IF j \in rows THEN daily_stats[j].Vol
                                                  ELSE 0])
                  /\ monthly_stats[m].MeterReports = Cardinality(recs)
                  /\ monthly_stats[m].DaysWithData
                         <= monthly_stats[m].MeterReports
                  /\ \A j \in rows :
                         monthly_stats[m].DaysWithData
                             <= DaysInMonthOf(daily_stats[j].Date)
        /\ SumOver([m \in DOMAIN monthly_stats |->
                       monthly_stats[m].MeterReports],
                   DOMAIN monthly_stats) = Len(vol_data2)

\* two months with data, one of them with several days of data and more
\* reports than days
C13_Witness ==
    /\ StatsDone
    /\ Cardinality(DOMAIN monthly_stats) >= 2
    /\ \E m \in DOMAIN monthly_stats :
          /\ monthly_stats[m].DaysWithData >= 2
          /\ monthly_stats[m].MeterReports > monthly_stats[m].DaysWithData

\* key is YYYY-MM for the year and the month of date
IsMonthKeyOf(key, date) ==
    /\ Len(key) = 7
    /\ key[5] = "-"
    /\ \A k \in {1, 2, 3, 4, 6, 7} : key[k] # "-"
    /\ 1000 * (CharRank(key[1]) - 1) + 100 * (CharRank(key[2]) - 1)
           + 10 * (CharRank(key[3]) - 1) + (CharRank(key[4]) - 1)
           = DtYear(date)
    /\ 10 * (CharRank(key[6]) - 1) + (CharRank(key[7]) - 1) = DtMonth(date)

\* the month keys of the gap-filled plot data and of the daily table, each
\* with the month (counted from year 0) of a date it was made for
KeyedMonths ==
    {<<plot_data[k].Month,
       12 * DtYear(plot_data[k].Date) + DtMonth(plot_data[k].Date)>> :
         k \in 1 .. Len(plot_data)}
    \cup {<<daily_stats[j].Month,
            12 * DtYear(daily_stats[j].Date) + DtMonth(daily_stats[j].Date)>> :
              j \in 1 .. Len(daily_stats)}

(* C14: every month key the pipeline produces (negative summary, daily     *)
(* statistics, monthly statistics, extraction statistics, gap-filled plot  *)
(* data) is YYYY-MM with the month padded to two digits (January 2021 is   *)
(* '2021-01'), so for any two dates the lexicographic order of their month *)
(* keys is the calendar order of their months.                             *)
C14_MonthKeys ==
    /\ \A k \in 1 .. Len(plot_data) :
          /\ IsMonthKeyOf(plot_data[k].Month, plot_data[k].Date)
          /\ (DtYear(plot_data[k].Date) = 2021
                  /\ DtMonth(plot_data[k].Date) = 1)
                => plot_data[k].Month = <<"2", "0", "2", "1", "-", "0", "1">>
    /\ \A j \in 1 .. Len(daily_stats) :
          IsMonthKeyOf(daily_stats[j].Month, daily_stats[j].Date)
    /\ \A m \in DOMAIN monthly_stats :
          \E j \in 1 .. Len(daily_stats) :
              IsMonthKeyOf(m, daily_stats[j].Date)
    /\ \A m \in DOMAIN neg_summary :
          \E i \in 1 .. Len(vol_data) :
              IsNegative(vol_data[i]) /\ IsMonthKeyOf(m, vol_data[i].Date)
    /\ \A m \in DOMAIN extraction_stats.rows :
          \E i \in 1 .. Len(vol_data2) :
              IsPositive(vol_data2[i]) /\ IsMonthKeyOf(m, vol_data2[i].Date)
    /\ \A a \in KeyedMonths, b \in KeyedMonths :
          /\ StrLess(a[1], b[1]) <=> a[2] < b[2]
          /\ a[1] = b[1] <=> a[2] = b[2]

\* plot data from September 2020 to January 2021, with negative values,
\* records and positive volumes in January 2021
C14_Witness ==
    LET jan == <<"2", "0", "2", "1", "-", "0", "1">>
    IN  /\ pc = "plotted2"
        /\ jan \in DOMAIN neg_summary
        /\ jan \in DOMAIN monthly_stats
        /\ jan \in DOMAIN extraction_stats.rows
        /\ \E k \in 1 .. Len(plot_data) : plot_data[k].Month = jan
        /\ \E k \in 1 .. Len(plot_data) :
              plot_data[k].Month = <<"2", "0", "2", "0", "-", "0", "9">>
        /\ \E k \in 1 .. Len(plot_data) :
              plot_data[k].Month = <<"2", "0", "2", "0", "-", "1", "0">>

(* C15: combine_monthly_stats keeps exactly the months of the monthly      *)
(* statistics table, one row per month and still keyed by its month; the   *)
(* monthly minimum / mean / maximum extraction come from the per-reading   *)
(* positive volumes and are attached by month key as a left join, so a     *)
(* month without positive volume keeps its row with null extraction        *)
(* statistics, also when no record at all has a positive volume.           *)
C15_CombinedKeepsMonths ==
    (pc \in {"combined", "plotted1", "plotted2"}
        /\ DOMAIN monthly_stats # {}) =>
        /\ monthly_stats2.keyed
        /\ DOMAIN monthly_stats2.rows = DOMAIN monthly_stats
        /\ \A m \in DOMAIN monthly_stats :
              LET row == monthly_stats2.rows[m]
                  pos == {i \in 1 .. Len(vol_data2) :
                             /\ MonthKey(vol_data2[i].Date) = m
                             /\ vol_data2[i].Vol.v > 0}
                  V == {vol_data2[i].Vol.v : i \in pos}
              IN  /\ row.DaysWithData = monthly_stats[m].DaysWithData
                  /\ row.TotalReports = monthly_stats[m].MeterReports
                  /\ row.MeasType = monthly_stats[m].MeasurementType
                  /\ pos = {} =>
                        /\ row.MinExtraction = NaN
                        /\ row.MeanExtraction = NaN
                        /\ row.MaxExtraction = NaN
                  /\ pos # {} =>
                        /\ row.MinExtraction = Num(SetMin(V))
                        /\ row.MaxExtraction = Num(SetMax(V))
                        /\ ~row.MeanExtraction.nan
                        /\ 10 * SetMin(V) <= row.MeanExtraction.v
                        /\ row.MeanExtraction.v <= 10 * SetMax(V)

\* process_plot_data, process_plot_data1 or process_plot_data2 has run
Plotted == pc \in {"plotted", "plotted1", "plotted2"}

\* the first and the last date with a record of the filtered series
FirstObserved == SetMin({vol_data2[i].Date : i \in 1 .. Len(vol_data2)})
LastObserved == SetMax({vol_data2[i].Date : i \in 1 .. Len(vol_data2)})

IsDate(date, y, m, d) ==
    CivilFromDays(date) = [year |-> y, month |-> m, day |-> d]

(* C16: the plot range starts at the beginning of the water year that      *)
(* holds the first observation: 1 July of the previous calendar year when  *)
(* the month of the first observed date is <= 6, else 1 July of the same   *)
(* year (2020-03-15 gives 2019-07-01, 2020-09-01 gives 2020-07-01); so     *)
(* the start is always a 1 July, never after the first observation and     *)
(* less than 12 months before it.                                          *)
C16_WaterYearStart ==
    Plotted =>
        /\ Len(plot_data) > 0
        /\ LET start == plot_data[1].Date
               first == CivilFromDays(FirstObserved)
           IN
            /\ first.month <= 6 => IsDate(start, first.year - 1, 7, 1)
            /\ first.month > 6 => IsDate(start, first.year, 7, 1)
            /\ DtMonth(start) = 7 /\ DtDay(start) = 1
            /\ start <= FirstObserved
            /\ \E next \in FirstObserved + 1 .. FirstObserved + 366 :
                  IsDate(next, DtYear(start) + 1, 7, 1)
            /\ IsDate(FirstObserved, 2020, 3, 15) => IsDate(start, 2019, 7, 1)
            /\ IsDate(FirstObserved, 2020, 9, 1) => IsDate(start, 2020, 7, 1)

\* plot data of a series first observed on 2020-03-15
C16_Witness ==
    /\ Plotted
    /\ IsDate(FirstObserved, 2020, 3, 15)
    /\ IsDate(plot_data[1].Date, 2019, 7, 1)

(* C17: the gap-filled daily series has exactly one row for every          *)
(* calendar date from the water-year start to the last observed date, in   *)
(* ascending order.  A date without record has Readings = 0 and a missing  *)
(* (not 0) Volume and Rate; a date with records has Readings = the number  *)
(* of its records, Volume = the sum of their volumes and                   *)
(* Rate = Volume * 1000/86400; Rate is missing exactly when Volume is.     *)
C17_GapFilledSeries ==
    Plotted =>
        /\ Len(plot_data) > 0
        /\ plot_data[1].Date = WaterYearStart(FirstObserved)
        /\ plot_data[Len(plot_data)].Date = LastObserved
        /\ \A k \in 1 .. Len(plot_data) :
              LET row == plot_data[k]
                  recs == {i \in 1 .. Len(vol_data2) :
                              vol_data2[i].Date = row.Date}
              IN  /\ row.Date = plot_data[1].Date + k - 1
                  /\ row.Readings = Cardinality(recs)
                  /\ row.Rate.nan <=> row.Volume.nan
                  /\ recs = {} => row.Volume = NaN
                  /\ recs # {} =>
                        /\ row.Volume =
                               Num(SumSeq([i \in 1 .. Len(vol_data2) |->
                                              IF i \in recs
                                              THEN vol_data2[i].Vol.v ELSE 0]))
                        /\ row.Rate.num * 86400
                               = row.Volume.v * 1000 * row.Rate.den

\* a date without record between dates with records, a date with two
\* records and a date whose records add up to a volume of 0
C17_Witness ==
    /\ Plotted
    /\ \E k \in 2 .. Len(plot_data) - 1 :
          /\ plot_data[k].Readings = 0
          /\ plot_data[k].Volume = NaN
          /\ plot_data[k - 1].Readings = 2
          /\ plot_data[k - 1].Volume.v > 0
          /\ plot_data[k + 1].Readings = 1
          /\ plot_data[k + 1].Volume = Num(0)

\* ma is the mean of the non-missing volumes of the rows k-29 .. k of the
\* plot data when at least 21 of them are not missing, and missing
\* otherwise
IsRollingMean30(ma, k) ==
    LET lo == IF k - 29 < 1 THEN 1 ELSE k - 29
        obs == {j \in lo .. k : ~plot_data[j].Volume.nan}
        sum == SumSeq([j \in 1 .. k |->
                          IF j \in obs THEN plot_data[j].Volume.v ELSE 0])
    IN  /\ ~ma.nan <=> Cardinality(obs) >= 21
        /\ ~ma.nan => ma.num * Cardinality(obs) = sum * ma.den
        /\ k <= 20 => ma.nan

(* C18: the trailing rolling mean of the gap-filled daily volume for day d *)
(* over a 30-day window (days d-29 .. d) is defined iff at least 21 of     *)
(* those days have a non-missing volume, and is then the mean of the       *)
(* non-missing volumes of the window; with fewer than 21 non-missing days  *)
(* (so on the first 20 days of the range) it is missing.  This is stated   *)
(* for MA30 of process_plot_data and for MA of process_plot_data2 with a   *)
(* window of 30 days.                                                      *)
C18_RollingMean ==
    /\ pc = "plotted" =>
          \A k \in 1 .. Len(plot_data) :
              IsRollingMean30(plot_data[k].MA30, k)
    /\ (pc = "plotted2" /\ return_period = 30) =>
          \A k \in 1 .. Len(plot_data) :
              IsRollingMean30(plot_data[k].MA, k)

(* C19: a failed fetch for one measurement kind is never fatal in          *)
(* extract_water_use_data: whatever the outcome of the fetch of a row, the *)
(* loop goes on with the next row, the date cursor is the row's ToDate     *)
(* + 1 day, and the rows collected so far are kept (a failed fetch adds    *)
(* none).  The date range requested for a later row therefore does not     *)
(* depend on whether an earlier fetch failed or succeeded.                 *)
C19_FailedFetchAdvancesCursor ==
    [][ (pc = "extract" /\ idx <= Len(mslist2)
            /\ from_d <= mslist2[idx].ToDate)
        => /\ pc' = "extract"
           /\ idx' = idx + 1
           /\ from_d' = mslist2[idx].ToDate + 1
           /\ Len(wu_data') >= Len(wu_data)
           /\ SubSeq(wu_data', 1, Len(wu_data)) = wu_data
           /\ \A i \in Len(wu_data) + 1 .. Len(wu_data') :
                 /\ wu_data'[i].Measurement = mslist2[idx].Measurement
                 /\ from_d <= wu_data'[i].DateTime.date
                 /\ wu_data'[i].DateTime.date <= mslist2[idx].ToDate ]_vars

\* the loop is over: the first row of the list gave no reading, and the
\* second row, of another kind and ending later, was fetched from the day
\* after the first row's ToDate
C19_Witness ==
    /\ pc = "extract"
    /\ Len(mslist2) = 2
    /\ idx = 3
    /\ mslist2[1].Measurement # mslist2[2].Measurement
    /\ mslist2[1].ToDate < mslist2[2].ToDate
    /\ from_d = mslist2[2].ToDate + 1
    /\ wu_data # <<>>
    /\ \A i \in 1 .. Len(wu_data) :
          /\ wu_data[i].Measurement = mslist2[2].Measurement
          /\ wu_data[i].DateTime.date > mslist2[1].ToDate

(* C20: an empty reading sequence (every fetch of the site failed) causes  *)
(* no exception: the stages of main complete on it, with empty outputs.    *)
C20_EmptyInputCompletes ==
    (wu_data = <<>> /\ idx > Len(mslist2)) =>
        /\ pc # "raised"
        /\ vol_data = <<>> /\ vol_data2 = <<>> /\ vol_stats = <<>>
        /\ daily_stats = <<>> /\ plot_data = <<>>

\* the date ranges passed to ws.get_data so far follow each other: each is
\* not empty, the first starts at the first row's FromDate and every later
\* one starts the day after the end of the one before
RangesFollow ==
    /\ \A k \in 1 .. Len(requests) :
          requests[k].from_date <= requests[k].to_date
    /\ Len(requests) > 0 => requests[1].from_date = mslist2[1].FromDate
    /\ \A k \in 2 .. Len(requests) :
          requests[k].from_date = requests[k - 1].to_date + 1
    /\ \A j \in 1 .. Len(requests), k \in 1 .. Len(requests) :
          j < k => requests[j].to_date < requests[k].from_date

(* C24: in extract_water_use_data / extract_and_combine_data, for any       *)
(* measurement list and any pattern of fetch successes and failures, the   *)
(* date ranges [from_d, to_d] passed to successive fetch calls are         *)
(* pairwise disjoint and strictly increasing: the first fetch starts at    *)
(* the first row's FromDate, each later fetch starts exactly one day after *)
(* the ToDate of the previous attempted fetch, the cursor never decreases, *)
(* and a row whose ToDate is before the cursor triggers no fetch and       *)
(* leaves the cursor unchanged.                                            *)
C24_FetchRangesDisjoint ==
    /\ [](pc = "extract" => RangesFollow)
    /\ [][ (pc = "extract" /\ idx <= Len(mslist2)) =>
              /\ from_d' >= from_d
              /\ mslist2[idx].ToDate < from_d =>
                    (requests' = requests /\ from_d' = from_d)
              /\ from_d <= mslist2[idx].ToDate =>
                    /\ Len(requests') = Len(requests) + 1
                    /\ requests'[Len(requests')].from_date = from_d
                    /\ requests'[Len(requests')].to_date = mslist2[idx].ToDate
                    /\ requests'[Len(requests')].Measurement
                           = mslist2[idx].Measurement ]_vars

\* two fetches were made; the second row begins on the day the first
\* fetch covered, and its fetch starts on the day after
C24_Witness ==
    /\ pc = "extract"
    /\ Len(requests) = 2
    /\ idx = 3
    /\ mslist2[2].FromDate = requests[1].to_date
    /\ requests[2].from_date = requests[1].to_date + 1
    /\ requests[2].to_date = mslist2[2].ToDate

\* row `out` carries the Measurement, DateTime and Value of row `in`
CarriesReading(out, in) ==
    /\ out.Measurement = in.Measurement
    /\ out.DateTime = in.DateTime
    /\ out.Value = in.Value

(* C23: the derivation steps do not mutate their inputs:                   *)
(* convert_water_use_data, summarise_negative_values,                      *)
(* remove_negative_values and detect_spikes leave the table passed in      *)
(* unchanged (same rows, same Measurement / DateTime / Value and Vol), and *)
(* each output row carries the Measurement, DateTime and Value of the      *)
(* input row it derives from.                                              *)
C23_InputsNotMutated ==
    /\ [][ (pc = "extract" /\ pc' = "statistics") =>
              \* convert_water_use_data(wu_data)
              /\ wu_data' = wu_data
              /\ Len(vol_data') = Len(wu_data)
              /\ \A i \in 1 .. Len(wu_data) :
                    CarriesReading(vol_data'[i], wu_data[i])
              \* remove_negative_values(vol_data): the rows kept are rows
              \* of the table passed in, which keeps all its rows
              /\ Len(vol_data2') <= Len(vol_data')
              /\ \A j \in 1 .. Len(vol_data2') :
                    \E i \in j .. Len(vol_data') : vol_data2'[j] = vol_data'[i]
          ]_vars
    /\ [][ (pc = "statistics" /\ pc' = "done") =>
              \* detect_spikes(vol_data2, mean, sd)
              /\ wu_data' = wu_data
              /\ vol_data' = vol_data
              /\ vol_data2' = vol_data2
              /\ Len(vol_stats') = Len(vol_data2)
              /\ \A i \in 1 .. Len(vol_data2) :
                    /\ CarriesReading(vol_stats'[i], vol_data2[i])
                    /\ vol_stats'[i].Vol = vol_data2[i].Vol
                    /\ vol_stats'[i].Date = vol_data2[i].Date
          ]_vars

\* the spikes of a series that held a negative volume and a meter reading
\* have been flagged
C23_Witness ==
    /\ pc = "done"
    /\ Len(vol_data2) < Len(vol_data)
    /\ Len(vol_stats) > 0
    /\ \E i \in 1 .. Len(wu_data) : IsMeter(wu_data[i])
    /\ \E i \in 1 .. Len(vol_data) : vol_data[i].Vol # Num(wu_data[i].Value)

\* the start of row i of a raw measurement list, a null start being
\* 2000-01-01
StartOf(raw, i) == IF raw[i].From.nat THEN DefaultFrom ELSE raw[i].From

\* row i of a raw measurement list overlaps the window: it neither ends at
\* or before the start of from_date nor starts at or after to_date
Overlaps(raw, i) ==
    /\ ~(raw[i].To.date < WindowFrom
           \/ raw[i].To = Timestamp(WindowFrom, 0))
    /\ StartOf(raw, i).date < WindowTo

(* C30: process_measurement_list with a window (from_date, to_date)        *)
(* returns only measurement rows that overlap the window - rows with       *)
(* ToDate <= from_date or FromDate >= to_date are removed - and clips the  *)
(* rest so that every returned row satisfies                               *)
(* from_date <= FromDate <= ToDate <= to_date, with rows kept in ascending *)
(* order of their original From date (a null From being treated as         *)
(* 2000-01-01).                                                            *)
C30_WindowedMeasurementList ==
    pc = "listed" =>
        LET raw == site_list[wap].mslist
            n == Len(mslist2)
        IN  /\ n = Cardinality({i \in 1 .. Len(raw) : Overlaps(raw, i)})
            /\ \A k \in 1 .. n :
                  /\ WindowFrom <= mslist2[k].FromDate
                  /\ mslist2[k].FromDate <= mslist2[k].ToDate
                  /\ mslist2[k].ToDate <= WindowTo
            \* the returned rows are the overlapping rows, each once, in
            \* ascending order of their start
            /\ \E f \in [1 .. n -> 1 .. Len(raw)] :
                  /\ \A k \in 1 .. n, l \in 1 .. n : k # l => f[k] # f[l]
                  /\ \A k \in 1 .. n :
                        /\ Overlaps(raw, f[k])
                        /\ mslist2[k].Measurement = raw[f[k]].Measurement
                        /\ mslist2[k].FromDate =
                               (IF StartOf(raw, f[k]).date < WindowFrom
                                THEN WindowFrom ELSE StartOf(raw, f[k]).date)
                        /\ mslist2[k].ToDate =
                               (IF raw[f[k]].To.date > WindowTo
                                    \/ (raw[f[k]].To.date = WindowTo
                                        /\ raw[f[k]].To.minute > 0)
                                THEN WindowTo ELSE raw[f[k]].To.date)
                  /\ \A k \in 1 .. n - 1 :
                        ~TsLess(StartOf(raw, f[k + 1]), StartOf(raw, f[k]))

\* a list whose later row has a null start and is returned first, clipped
\* at both ends of the window, and whose other row is returned unclipped
C30_Witness ==
    /\ pc = "listed"
    /\ LET raw == site_list[wap].mslist
       IN  /\ Len(raw) = 2
           /\ raw[2].From.nat
           /\ raw[1].Measurement # raw[2].Measurement
           /\ Len(mslist2) = 2
           /\ mslist2[1] = [Measurement |-> raw[2].Measurement,
                            FromDate |-> WindowFrom, ToDate |-> WindowTo]
           /\ mslist2[2].ToDate < WindowTo
           /\ mslist2[2].FromDate > WindowFrom

\* the site has no measurement list, or no row of its list overlaps the
\* window
NoWindowSite(site) ==
    \/ ~site.listed
    \/ \A i \in 1 .. Len(site.mslist) : ~Overlaps(site.mslist, i)

\* the readings main extracts for a site (none for a site without window)
ExtractedFor(site) ==
    IF NoWindowSite(site) THEN <<>>
    ELSE LET list == process_measurement_list(site.mslist, WindowFrom,
                                              WindowTo)
         IN  ExtractRows(list, site, 1, list[1].FromDate).raw_data

\* the number of entries of a sequence that satisfy Site = name
ReportsOf(name) ==
    Cardinality({k \in 1 .. Len(stdout) : stdout[k].site = name})
FilesOf(name, kind) ==
    Cardinality({k \in 1 .. Len(exported) :
                    exported[k].Site = name /\ exported[k].kind = kind})
\* the number of sites of that name the loop has gone through
Passed(name) ==
    Cardinality({k \in 1 .. wap - 1 : site_list[k].Site = name})

(* C21: in the WAP-list script, a site that has no measurement record      *)
(* overlapping the target window (2018-07-01 to 2019-06-30), or no         *)
(* measurement list at all, is reported to the operator once, is not       *)
(* retried, produces no statistics or plot output, and does not stop the   *)
(* loop: every later site of the list is still processed.                  *)
C21_NoWindowSiteReported ==
    /\ [][ (pc = "site" /\ wap <= Len(site_list)
               /\ NoWindowSite(site_list[wap])) =>
              /\ stdout' = Append(stdout, NoDataReport(site_list[wap]))
              /\ exported' = exported
              /\ requests' = requests
              /\ wap' = wap + 1
              /\ pc' = "site" ]_vars
    /\ [][ wap' >= wap ]_vars
    /\ [](pc = "site" =>
            \A k \in 1 .. Len(site_list) :
                LET site == site_list[k]
                IN  /\ NoWindowSite(site) =>
                          /\ ReportsOf(site.Site) = Passed(site.Site)
                          /\ FilesOf(site.Site, "Summary Stats") = 0
                          /\ FilesOf(site.Site, "Daily Plots") = 0
                    \* a site with readings is processed wherever it is
                    \* in the list
                    /\ (ExtractedFor(site) # <<>>
                            /\ export_response \in {"s", "b"}) =>
                          FilesOf(site.Site, "Summary Stats")
                              = Passed(site.Site))

\* the loop is over: the first site had no measurement in the window and
\* was reported, and the statistics of the second site were exported
C21_Witness ==
    /\ pc = "site"
    /\ Len(site_list) = 2
    /\ wap = 3
    /\ site_list[1].listed /\ NoWindowSite(site_list[1])
    /\ stdout = << NoDataReport(site_list[1]) >>
    /\ Len(exported) = 1
    /\ exported[1].Site = site_list[2].Site

\* the site of the list that bears a name
SiteNamed(name) == CHOOSE site \in SiteKinds : site.Site = name

\* one run of convert -> summarise / remove negatives -> spike detection
\* -> daily -> monthly aggregation on the readings of a site alone
RunOn(readings) ==
    LET converted == convert_water_use_data(readings)
        negatives == summarise_negative_values(converted)
        filtered == remove_negative_values(converted)
        p == calculate_spike_parameters(filtered)
        flagged == detect_spikes(filtered, p.mean, p.sd)
        daily == generate_daily_stats(flagged)
        monthly == generate_monthly_stats(daily)
    IN  [vol_data |-> converted, neg_summary |-> negatives,
         vol_data2 |-> filtered, vol_stats |-> flagged,
         daily_stats |-> daily, monthly_stats |-> monthly,
         monthly_stats2 |->
             combine_monthly_stats(monthly,
                                   generate_extraction_stats(filtered))]

(* C22: the cleaning / aggregation pipeline is deterministic: two runs of  *)
(* convert -> summarise / remove negatives -> spike detection -> daily ->  *)
(* monthly aggregation on the same input reading sequence (and the same    *)
(* fetch outcomes) produce identical negative summaries, spike flags and   *)
(* daily / monthly tables; no output depends on state left by a previous   *)
(* run or a previously processed site.                                     *)
C22_PipelineDeterministic ==
    \* what main holds for the site it is at is what one run on the
    \* readings of that site gives
    /\ pc \in {"processed", "statistics done"} =>
          LET run == RunOn(ExtractedFor(site_list[wap]))
          IN  /\ wu_data = ExtractedFor(site_list[wap])
              /\ vol_data = run.vol_data
              /\ neg_summary = run.neg_summary
              /\ vol_data2 = run.vol_data2
              /\ (pc = "statistics done" /\ export_response \in {"s", "b"}) =>
                    /\ vol_stats = run.vol_stats
                    /\ daily_stats = run.daily_stats
                    /\ monthly_stats = run.monthly_stats
                    /\ monthly_stats2 = run.monthly_stats2
    \* what was exported for a site is what one run on its readings gives,
    \* whatever sites were processed before it
    /\ \A k \in 1 .. Len(exported) :
          exported[k].kind = "Summary Stats" =>
              LET run == RunOn(ExtractedFor(SiteNamed(exported[k].Site)))
              IN  /\ exported[k].content[2] = run.neg_summary
                  /\ exported[k].content[3] = run.monthly_stats2
    \* two runs on the same site export the same
    /\ \A j \in 1 .. Len(exported), k \in 1 .. Len(exported) :
          (exported[j].Site = exported[k].Site
              /\ exported[j].kind = exported[k].kind)
            => exported[j] = exported[k]

\* the loop is over: the statistics of the same site, whose series holds a
\* negative volume, were exported twice
C22_Witness ==
    /\ pc = "site"
    /\ wap = 3
    /\ Len(exported) >= 2
    /\ exported[1].kind = "Summary Stats"
    /\ \E k \in 2 .. Len(exported) :
          /\ exported[k].kind = "Summary Stats"
          /\ exported[k].Site = exported[1].Site
          /\ DOMAIN exported[k].content[2] # {}

\* the statistics of a site alone, as one run of the quality assessment on
\* its readings gives them
AssessmentOf(site) ==
    LET r == QASiteSeries(site)
        p == calculate_spike_parameters(r.vol_data2)
    IN  generate_summary_stats(detect_spikes(r.vol_data2, p.mean, p.sd),
                               site, "Y", Len(site.mslist),
                               QA_summarise_negative_values(r.vol_data),
                               p.mean)

(* C25: in the Quality Assessment script, after main has iterated the site *)
(* list the results table holds exactly one row per input site, in input   *)
(* order: a row with InHilltop = 'N' and blank statistics iff the          *)
(* measurement-list lookup for that site raised ValueError, otherwise a    *)
(* row with InHilltop = 'Y' and that site's own statistics (never values   *)
(* carried over from a previously processed site).                         *)
C25_OneRowPerSite ==
    pc = "site" =>
        /\ Len(master) = wap - 1
        /\ \A k \in 1 .. Len(master) :
              /\ master[k].Site = site_list[k].Site
              /\ master[k].InHilltop = "N" <=> ~site_list[k].listed
              /\ master[k].InHilltop \in {"Y", "N"}
              /\ master[k].InHilltop = "N" => master[k].stats = Blank
              /\ master[k].InHilltop = "Y" =>
                    master[k] = AssessmentOf(site_list[k])

\* main has iterated a list of two sites: the second is not in Hilltop and
\* follows a site whose statistics were recorded
C25_Witness ==
    /\ pc = "site"
    /\ Len(site_list) = 2
    /\ wap = 3
    /\ master[1].InHilltop = "Y"
    /\ master[1].stats.NegativeValues > 0
    /\ master[2].InHilltop = "N"

(* C26: in the weekly missing-data report, a site's line says 'No data in  *)
(* last week' only if the fetch for the report week returned no data; when *)
(* the week does have data, the line is chosen by the site's mode alone: a *)
(* percentage complete for mode > 0, 'Mode equals 0!' for mode 0, and      *)
(* 'No mode data,Unknown' when the mode is 'No data'.                      *)
C26_LineChosenByMode ==
    \A k \in 1 .. Len(outfile) :
        LET row == wap_modes[k]
            line == outfile[k]
        IN  /\ line.PercComplete.text = "No data in last week" =>
                  row.week.outcome # "data"
            /\ row.week.outcome = "data" =>
                  IF row.Mode.nodata
                  THEN line.PercComplete.text = "Unknown"
                  ELSE IF row.Mode.v = 0
                  THEN line.PercComplete.text = "Mode equals 0!"
                  ELSE /\ line.PercComplete.text = ""
                       /\ line.PercComplete.tenths = perc_complete(row)

\* the mode of a site in a round: that of the readings, zero when the fetch
\* failed
ModeIn(site, r) ==
    LET a == Answer(site, r)
    IN  IF a.outcome = "data" THEN ReadingsMode(a.Readings) ELSE 0

\* the first of the rounds 1 .. r in which the site has a mode that is not
\* zero, 0 if there is none
FirstNonZero(site, r) ==
    LET S == {q \in 1 .. r : ModeIn(site, q) # 0}
    IN  IF S = {} THEN 0 ELSE SetMin(S)

(* C27: in CompileWAPReportingModes, the final mode of a site is the first *)
(* non-zero value in the order annual mode, quarter-1 .. quarter-4 mode (a *)
(* quarter whose fetch fails counts as zero), and is 0 only if all of them *)
(* are zero or failed: once a round has written a non-zero mode for a      *)
(* site, no later round fetches data for it or changes its Mode or Method. *)
C27_FirstNonZeroMode ==
    /\ \A r \in 1 .. Len(files) : \A k \in 1 .. Len(files[r]) :
          LET row == files[r][k]
              q == FirstNonZero(row.Site, r)
          IN  /\ row.Mode = (IF q = 0 THEN 0 ELSE ModeIn(row.Site, q))
              /\ row.Method = (IF q = 0 THEN "Annual" ELSE Methods[q])
              /\ \A r2 \in r .. Len(files) :
                    (row.Mode # 0 /\ k <= Len(files[r2])) =>
                        /\ files[r2][k].Mode = row.Mode
                        /\ files[r2][k].Method = row.Method
    /\ \A i \in 1 .. Len(requests) :
          requests[i].round > 1 =>
              FirstNonZero(requests[i].Site, requests[i].round - 1) = 0

\* main has returned: the final file holds a mode found in the second
\* quarter after a failed fetch, a mode of the first quarter that later
\* quarters with other modes did not change, and a mode that is still zero
C27_Witness ==
    /\ pc = "finished"
    /\ Len(files) = 5
    /\ \E k \in 1 .. Len(files[5]) :
          \/ files[5][k].Site = "K37/0005" /\ files[5][k].Method = "Qtr2"
                 /\ files[5][k].Mode = 24
          \/ files[5][k].Site = "K37/0004" /\ files[5][k].Method = "Qtr1"
                 /\ files[5][k].Mode = 1
    /\ \E k \in 1 .. Len(files[5]) :
          files[5][k].Site = "L36/0008" /\ files[5][k].Mode = 0

\* the Site column of a file
SitesOf(file) == [k \in 1 .. Len(file) |-> file[k].Site]

(* C28: in CompileWAPReportingModes, every site written to                 *)
(* WAPMode_Round1.csv appears exactly once, in the same order, in each of  *)
(* WAPMode_Round2, Round3, Round4 and the final WAPReportingMode.csv,      *)
(* whatever the outcome (mode > 0, mode 0, ValueError, KeyError) of each   *)
(* quarterly recalculation; no round drops or duplicates a site.           *)
C28_SitesKeptInOrder ==
    /\ \A r \in 2 .. Len(files) : SitesOf(files[r]) = SitesOf(files[1])
    /\ pc = "finished" => Len(files) = 5
    /\ Len(files) >= 1 =>
          \A j \in 1 .. Len(files[1]), k \in 1 .. Len(files[1]) :
              files[1][j].Site = files[1][k].Site => j = k

\* main has returned: Round1 holds two sites, one whose quarterly fetches
\* raise ValueError and KeyError and one recalculated in a quarter
C28_Witness ==
    /\ pc = "finished"
    /\ Len(files) = 5
    /\ Len(files[1]) = 2
    /\ \E k \in 1 .. 2 : files[5][k].Site = "L36/0007"
                           /\ files[5][k].Method = "Qtr4"
    /\ \E i \in 1 .. Len(requests) :
          /\ requests[i].round > 1
          /\ Answer(requests[i].Site, requests[i].round).outcome = "KeyError"

(* C29: add_missing_dates returns a table in which every calendar date of  *)
(* [from_date, to_date] appears in at least one row, sorted by date and    *)
(* hour: every hourly row of a date that had data is preserved with its    *)
(* Readings and Volume, and each date that had no data is represented by   *)
(* one row with Readings = 0, Volume = 0 and Hour = 0.                     *)
C29_MissingDatesAdded ==
    pc = "hourly plots" =>
        LET in == hourly_data1
            out == hourly_data2
            had == {in[i].Date : i \in 1 .. Len(in)}
        IN  /\ \A d \in alldates(start_date_month, end_date) :
                  \E j \in 1 .. Len(out) : out[j].Date = d
            /\ \A j \in 1 .. Len(out) - 1 :
                  \/ out[j].Date < out[j + 1].Date
                  \/ /\ out[j].Date = out[j + 1].Date
                     /\ out[j].Hour <= out[j + 1].Hour
            /\ \A i \in 1 .. Len(in) : \E j \in 1 .. Len(out) :
                  /\ out[j].Date = in[i].Date
                  /\ out[j].Hour = in[i].Hour
                  /\ out[j].Readings = in[i].Readings
                  /\ out[j].Volume = in[i].Volume
            /\ \A d \in alldates(start_date_month, end_date) \ had :
                  /\ Cardinality({j \in 1 .. Len(out) : out[j].Date = d}) = 1
                  /\ \A j \in 1 .. Len(out) :
                        out[j].Date = d =>
                            /\ out[j].Readings = 0
                            /\ out[j].Volume = 0
                            /\ out[j].Hour = 0

====
